---- MODULE Spec2Model ----
(***************************************************************************)
(* Compose-area discovery, file-input matching, synthetic upload trigger,  *)
(* mutation watcher and upload orchestrator of the NFT inventory content   *)
(* script (src/src/contents/inventory-modal-ui.tsx, lines 187-1136) and    *)
(* the drag-and-drop upload path of the inventory button content script.  *)
(*                                                                         *)
(* The host page is a small DOM tree: a main region holding a background   *)
(* compose box and a background file input, and a dialog holding a modal   *)
(* compose box and a modal file input.  The host attaches, detaches, hides *)
(* and focuses elements; the content script observes and reacts.          *)
(*                                                                         *)
(* Numbers: lengths are CSS pixels; element centres are kept doubled       *)
(* (2*left + width) so that they stay integers; scores are kept times 100  *)
(* so that width/100 and height/20 stay integers; distances are compared   *)
(* by their squares (Math.sqrt is monotone).                               *)
(***************************************************************************)
EXTENDS Integers, Sequences, FiniteSets, TLC

\* ---------------------------------------------------------------- bounds
MaxPending == 2      \* mutation records queued before the observer callback runs
MaxMounts  == 2      \* times the modal component is mounted
MaxClicks  == 2      \* NFT click events handled
MaxDrops   == 1      \* file drops handled
MaxTicks   == 3      \* clock steps, each of half the cache duration
MaxFetches == 1      \* cached NFT fetches waiting for the providers at one time
MaxToolbars == 2     \* toolbars the host page shows (tweet box, reply box, ...)
MaxLoads   == 2      \* wallet NFT fetches started by the modal

\* ------------------------------------------------------------- constants
NULL   == -1         \* JavaScript null / no parent
NoCall == -2         \* no recorded call result
Body   == 0          \* document.body
NoMatch == [compose |-> NoCall, input |-> NoCall]
NoFile == [size |-> 0, type |-> "", name |-> <<>>]   \* an empty file list / a null File

\* strings that the code rewrites are sequences of characters
Alnum == {"a", "b", "c", "d", "e", "f", "g", "h", "i", "j", "k", "l", "m", "n", "o", "p", "q",
          "r", "s", "t", "u", "v", "w", "x", "y", "z", "A", "B", "C", "D", "E", "F", "G", "H",
          "I", "J", "K", "L", "M", "N", "O", "P", "Q", "R", "S", "T", "U", "V", "W", "X", "Y",
          "Z", "0", "1", "2", "3", "4", "5", "6", "7", "8", "9"}

\* name.replace(/[^a-zA-Z0-9]/g, '_')
Sanitize(name) == [i \in 1..Len(name) |-> IF name[i] \in Alnum THEN name[i] ELSE "_"]

\* the name used as it is
FileNameRaw(name) ==
  (IF name = <<>> THEN <<"n", "f", "t">> ELSE name) \o <<".", "p", "n", "g">>

\* `${nft.name?.replace(/[^a-zA-Z0-9]/g, '_') || 'nft'}.png` (252): an empty result is
\* falsy and gives 'nft'
FileName(name) ==
  (IF Sanitize(name) = <<>> THEN <<"n", "f", "t">> ELSE Sanitize(name)) \o <<".", "p", "n", "g">>

\* the name of the NFTs that are clicked
NftName == <<"A", "p", "e", " ", "#", "1">>

\* NFT image URLs: whether new URL() parses them, url.protocol, and url.hostname as
\* its dot-separated labels
PublicUrl    == [parses |-> TRUE, protocol |-> "https:", hostname |-> <<"cdn", "example", "com">>]
LocalhostUrl == [parses |-> TRUE, protocol |-> "http:",  hostname |-> <<"localhost">>]
FileUrl      == [parses |-> TRUE, protocol |-> "file:",  hostname |-> <<>>]
FtpUrl       == [parses |-> TRUE, protocol |-> "ftp:",   hostname |-> <<"example", "com">>]
BadUrl       == [parses |-> FALSE, protocol |-> "",      hostname |-> <<>>]

\* a handleNFTClickUpload call that has returned: nothing of it is left in the program
Settled == [image |-> BadUrl, aborted |-> FALSE, abortedAt |-> "", compose |-> NULL, input |-> NULL,
            pc |-> "done", outcome |-> "", steps |-> <<>>, events |-> <<>>, assigned |-> FALSE,
            validAtTrigger |-> TRUE]


innerWidth  == 1000
innerHeight == 800

\* element ids
MainEl   == 1        \* <div role="main">
BgBox    == 2        \* background compose box
BgInput  == 3        \* background <input type="file">
DialogEl == 4        \* <div role="dialog" aria-modal="true">
ModalBox == 5        \* compose box inside the dialog
ModalInput == 6      \* <input type="file"> inside the dialog
SideBox  == 7        \* a plain reply box in the background, scrolled partly out of view
FarInput == 8        \* a second background <input type="file">, low on the page
FixedBar == 9        \* <div style="position: fixed">, a bar docked at the bottom of the window
FixedBox == 10       \* the message box inside the docked bar
DmInput  == 11       \* <textarea data-testid="dmComposerTextInput">
PostArea == 12       \* <textarea aria-label="Post text">, a legacy compose box

Nodes    == {MainEl, BgBox, BgInput, DialogEl, ModalBox, ModalInput, SideBox, FarInput,
             FixedBar, FixedBox, DmInput, PostArea}
AllNodes == Nodes \cup {Body}

\* elements the host page creates only later
Hosted == {SideBox, FarInput, FixedBar, DmInput, PostArea}

VARIABLES
  par,                        \* par[n]: parentElement of n, NULL when n is a detached root
  css,                        \* css[n]: "shown", "none" (display:none) or "hidden" (visibility:hidden)
  bgPos,                      \* where the host lays out the background compose box: "in" or "off"
  activeElement,              \* document.activeElement
  composeAreaObserver,        \* TRUE when the MutationObserver exists and observes
  recentlyAddedComposeAreas,  \* the Set, as a sequence in insertion order
  pending,                    \* mutation records not yet delivered to the callback
  sweepTimers,                \* number of live setInterval sweep timers
  mounted,                    \* the modal component is mounted (its listeners are registered)
  mounts,                     \* number of mounts so far
  located,                    \* result of the last findActiveComposeArea call in the current DOM
  matched,                    \* [compose, input] of the last findFileInputForCompose call
  orch,                       \* one record per handleNFTClickUpload call, in call order;
                              \* a call that has returned is kept as Settled
  last,                       \* history: the call that returned last, as it ended
  caught,                     \* history: the catch block of some call has run
  abortControllerRef,         \* abortControllerRef.current: index into orch, 0 for null
  files,                      \* files[n]: the file list of input n, NoFile when empty
  blurTimers,                 \* inputs with a pending "clean up focus" timeout
  drops,                      \* one record per handleDrop call, in call order
  retry,                      \* the withRetry call in progress (or the last one finished)
  now,                        \* Date.now(), in milliseconds since the content script started
  nftCache,                   \* nftCache: cache key -> entry, NoEntry when the Map has no such key
  fetches,                    \* fetchUserNFTsWithCache calls awaiting fetchUserNFTs
  opensea,                    \* the fetchNFTsFromOpenSea call in progress (or the last one finished)
  toolbars,                   \* toolbars[t]: the host's t-th div[data-testid="toolBar"]
  btnObserver,                \* the button script's MutationObserver: "none", "observing" or "disconnected"
  btnPending,                 \* TRUE when that observer has undelivered mutation records
  wallet,                     \* useAbstractWallet(): [address, isDisconnecting], address "" when not connected
  loads,                      \* one record per loadNFTs call that reached its fetch, in call order
  nftFetchControllerRef,      \* nftFetchControllerRef.current: index into loads, 0 for null
  nfts,                       \* component state: the NFT list shown
  fetchErrors,                \* component state
  fromCache,                  \* component state
  isLoadingNFTs,              \* component state
  isMountedRef,               \* isMountedRef.current
  userFetch,                  \* fetchUserNFTs: [pc, chain, tried, failed, errors, nfts]
  alchemy,                    \* fetchNFTsFromAlchemy: [pc, chain, host, token, message, nfts]
  refresh,                    \* loadNFTs' refresh of an empty cached list: [pc, key, call, provider]
  answer                      \* history: the value the last finished fetchUserNFTsWithCache call returned

domVars     == <<par, css, bgPos, activeElement>>
watcherVars == <<composeAreaObserver, recentlyAddedComposeAreas, pending, sweepTimers, mounted, mounts>>
callVars    == <<located, matched>>
orchVars    == <<orch, last, caught, abortControllerRef, files, blurTimers, drops>>

\* frames: the variables of each component, and of all the others
uiVars      == <<domVars, watcherVars, callVars, orchVars>>
retryVars == <<retry>>
openseaVars == <<opensea>>
cacheVars == <<now, nftCache, fetches, answer>>
buttonVars == <<toolbars, btnObserver, btnPending>>
loadVars == <<wallet, loads, nftFetchControllerRef, nfts, fetchErrors, fromCache, isLoadingNFTs, isMountedRef>>
refreshVars == <<refresh>>
userVars == <<userFetch>>
alchemyVars == <<alchemy>>
notUi == <<retryVars, openseaVars, cacheVars, buttonVars, loadVars, refreshVars, userVars, alchemyVars>>
notRetry == <<uiVars, openseaVars, cacheVars, buttonVars, loadVars, refreshVars, userVars, alchemyVars>>
notOpensea == <<uiVars, retryVars, cacheVars, buttonVars, loadVars, refreshVars, userVars, alchemyVars>>
notCache == <<uiVars, retryVars, openseaVars, buttonVars, loadVars, refreshVars, userVars, alchemyVars>>
notButton == <<uiVars, retryVars, openseaVars, cacheVars, loadVars, refreshVars, userVars, alchemyVars>>
notLoad == <<uiVars, retryVars, openseaVars, cacheVars, buttonVars, refreshVars, userVars, alchemyVars>>
notRefresh == <<uiVars, retryVars, openseaVars, cacheVars, buttonVars, loadVars, userVars, alchemyVars>>
notUser == <<uiVars, retryVars, openseaVars, cacheVars, buttonVars, loadVars, refreshVars, alchemyVars>>
notAlchemy == <<uiVars, retryVars, openseaVars, cacheVars, buttonVars, loadVars, refreshVars, userVars>>
notRetryOpensea == <<uiVars, cacheVars, buttonVars, loadVars, refreshVars, userVars, alchemyVars>>
notCacheRefresh == <<uiVars, retryVars, openseaVars, buttonVars, loadVars, userVars, alchemyVars>>

\* ------------------------------------------------------- static attributes
NoAttr ==
  [tag |-> "div", type |-> "", role |-> "", ariaModal |-> FALSE, testid |-> "",
   ariaLabel |-> "", contenteditable |-> "", accept |-> "", disabled |-> FALSE,
   readonly |-> FALSE, labelledby |-> FALSE, dataText |-> FALSE, slate |-> FALSE, cls |-> "",
   fixed |-> FALSE, opacity |-> 100, pointerEvents |-> "auto", zIndex |-> 0, layer |-> 0]

Attr(n) ==
  CASE n = Body       -> [NoAttr EXCEPT !.tag = "body"]
    [] n = MainEl     -> [NoAttr EXCEPT !.role = "main"]
    [] n = BgBox      -> [NoAttr EXCEPT !.role = "textbox", !.contenteditable = "true",
                                        !.testid = "tweetTextarea_0", !.ariaLabel = "Post text"]
    [] n = BgInput    -> [NoAttr EXCEPT !.tag = "input", !.type = "file", !.accept = "image/*",
                                        !.testid = "fileInput"]
    [] n = DialogEl   -> [NoAttr EXCEPT !.role = "dialog", !.ariaModal = TRUE, !.layer = 1]
    [] n = ModalBox   -> [NoAttr EXCEPT !.role = "textbox", !.contenteditable = "true",
                                        !.testid = "tweetTextarea_0", !.ariaLabel = "Post text",
                                        !.layer = 1]
    [] n = ModalInput -> [NoAttr EXCEPT !.tag = "input", !.type = "file", !.accept = "image/*",
                                        !.testid = "fileInput", !.layer = 1]
    [] n = SideBox    -> [NoAttr EXCEPT !.role = "textbox", !.contenteditable = "true"]
    [] n = FarInput   -> [NoAttr EXCEPT !.tag = "input", !.type = "file", !.accept = "image/*",
                                        !.testid = "fileInput"]
    [] n = FixedBar   -> [NoAttr EXCEPT !.fixed = TRUE]
    [] n = FixedBox   -> [NoAttr EXCEPT !.role = "textbox", !.contenteditable = "true"]
    [] n = DmInput    -> [NoAttr EXCEPT !.tag = "textarea", !.testid = "dmComposerTextInput"]
    [] n = PostArea   -> [NoAttr EXCEPT !.tag = "textarea", !.ariaLabel = "Post text"]

\* the parent the host gives an element when it (re)creates it
Home(n) ==
  CASE n = MainEl -> Body
    [] n \in {BgBox, BgInput, DialogEl, SideBox, FarInput, FixedBar, DmInput, PostArea} -> MainEl
    [] n = FixedBox -> FixedBar
    [] n \in {ModalBox, ModalInput} -> DialogEl

\* String.prototype.includes, on the attribute values that occur on the page
Includes(s, sub) ==
  CASE s = "tweetTextarea_0" -> sub \in {"tweet", "tweetTextarea", "tweetTextarea_0"}
    [] s = "fileInput"       -> sub \in {"file", "fileInput"}
    [] s = "Post text"       -> sub \in {"Post", "Post text"}
    [] s = "image/*"         -> sub \in {"image", "image/*"}
    [] s = "Failed to fetch" -> sub \in {"fetch", "Failed to fetch"}
    [] s = "Rate limit exceeded. Please try again later. Consider adding an OpenSea API key."
                             -> sub \in {"Rate limit", "API key"}
    [] s = "OpenSea API authentication failed. Please check your API key."
                             -> sub \in {"authentication", "API key"}
    [] OTHER                 -> s = sub /\ s # ""

\* the layout box the host gives an attached, rendered element
LayoutRect(n) ==
  CASE n = Body       -> [left |-> 0,   top |-> 0,   width |-> 1000, height |-> 800]
    [] n = MainEl     -> [left |-> 0,   top |-> 0,   width |-> 1000, height |-> 800]
    [] n = BgBox      -> IF bgPos = "in"
                         THEN [left |-> 100, top |-> 250, width |-> 600, height |-> 100]
                         ELSE [left |-> 0 - 50, top |-> 0 - 50, width |-> 600, height |-> 100]
    [] n = BgInput    -> [left |-> 380, top |-> 360, width |-> 20,  height |-> 20]
    [] n = DialogEl   -> [left |-> 200, top |-> 100, width |-> 600, height |-> 500]
    [] n = ModalBox   -> [left |-> 250, top |-> 150, width |-> 500, height |-> 100]
    [] n = ModalInput -> [left |-> 700, top |-> 500, width |-> 20,  height |-> 20]
    [] n = SideBox    -> [left |-> 0 - 20, top |-> 0 - 10, width |-> 100, height |-> 30]
    [] n = FarInput   -> [left |-> 80,  top |-> 500, width |-> 20,  height |-> 20]
    [] n = FixedBar   -> [left |-> 0,   top |-> 700, width |-> 1000, height |-> 100]
    [] n = FixedBox   -> [left |-> 100, top |-> 720, width |-> 600, height |-> 60]
    [] n = DmInput    -> [left |-> 820, top |-> 620, width |-> 150, height |-> 40]
    [] n = PostArea   -> [left |-> 820, top |-> 40,  width |-> 150, height |-> 40]

\* ------------------------------------------------------------ DOM queries
RECURSIVE Attached(_)
\* document.contains(n)
Attached(n) == IF n = Body THEN TRUE ELSE IF par[n] = NULL THEN FALSE ELSE Attached(par[n])

RECURSIVE Contains(_, _)
\* a.contains(b)
Contains(a, b) ==
  IF b = a THEN TRUE
  ELSE IF b = Body \/ b = NULL THEN FALSE
  ELSE IF par[b] = NULL THEN FALSE
  ELSE Contains(a, par[b])

RECURSIVE Rendered(_)
\* n is attached and neither n nor an ancestor has display:none
Rendered(n) ==
  IF n = Body THEN TRUE
  ELSE IF par[n] = NULL \/ css[n] = "none" THEN FALSE
  ELSE Rendered(par[n])

\* the host's style of an element; the body is always shown
Css(n) == IF n = Body THEN "shown" ELSE css[n]

\* element.getBoundingClientRect(): all zero for an element without a layout box
getBoundingClientRect(n) ==
  IF Rendered(n) THEN LayoutRect(n) ELSE [left |-> 0, top |-> 0, width |-> 0, height |-> 0]

\* window.getComputedStyle(n): every property is the empty string for a detached element
getComputedStyle(n) ==
  IF Attached(n)
  THEN [display |-> IF Css(n) = "none" THEN "none" ELSE "block",
        visibility |-> IF Css(n) = "hidden" THEN "hidden" ELSE "visible",
        opacityNaN |-> FALSE, opacity |-> Attr(n).opacity,
        pointerEvents |-> Attr(n).pointerEvents, zIndex |-> Attr(n).zIndex]
  ELSE [display |-> "", visibility |-> "", opacityNaN |-> TRUE, opacity |-> 0,
        pointerEvents |-> "", zIndex |-> 0]

RECURSIVE SetToSeq(_)
\* the elements of a set of ids in ascending order
SetToSeq(S) ==
  IF S = {} THEN <<>>
  ELSE LET m == CHOOSE x \in S : \A y \in S : x <= y IN <<m>> \o SetToSeq(S \ {m})

RECURSIVE Flatten(_)
Flatten(ss) == IF ss = <<>> THEN <<>> ELSE Head(ss) \o Flatten(Tail(ss))

RECURSIVE Descendants(_)
\* the descendants of p in document (pre-)order; siblings are ordered by id
Descendants(p) ==
  LET kids == SetToSeq({n \in Nodes : par[n] = p})
  IN Flatten([i \in 1..Len(kids) |-> <<kids[i]>> \o Descendants(kids[i])])

RECURSIVE InclusiveAncestors(_)
\* n, its parent, its grandparent, ... up to the root of its tree
InclusiveAncestors(n) ==
  IF n = NULL THEN <<>>
  ELSE IF n = Body THEN <<Body>>
  ELSE <<n>> \o InclusiveAncestors(par[n])

\* element.closest(selector): the element itself or its nearest ancestor matching P
Closest(n, P(_)) ==
  LET m == SelectSeq(InclusiveAncestors(n), P) IN IF m = <<>> THEN NULL ELSE m[1]

\* root.querySelectorAll(selector), P being the selector's test of one element
QuerySelectorAll(root, P(_)) == SelectSeq(Descendants(root), P)

\* root.querySelector(selector)
QuerySelector(root, P(_)) ==
  LET all == QuerySelectorAll(root, P) IN IF all = <<>> THEN NULL ELSE all[1]

parentElement(n) == IF n = NULL \/ n = Body THEN NULL ELSE par[n]

SeqToSet(s) == {s[i] : i \in 1..Len(s)}

\* selector tests
IsModalMarker(n) ==
  \/ Attr(n).role = "dialog"
  \/ Attr(n).ariaModal
  \/ Includes(Attr(n).testid, "Modal")
  \/ Includes(Attr(n).testid, "Drawer")

IsRoleTextbox(n)      == Attr(n).role = "textbox"
IsTweetTextarea(n)    == Includes(Attr(n).testid, "tweetTextarea")
IsContentEditable(n)  == Attr(n).contenteditable = "true"

\* document.elementFromPoint at the doubled coordinates (x2, y2): the topmost
\* painted element under the point; elements of a higher layer paint over lower
\* ones and, within a layer, later document order paints over earlier
elementFromPoint(x2, y2) ==
  IF ~(x2 >= 0 /\ x2 < 2 * innerWidth /\ y2 >= 0 /\ y2 < 2 * innerHeight) THEN NULL
  ELSE
    LET order == Descendants(Body)
        Hit(i) ==
          LET n == order[i]
              r == LayoutRect(n)
          IN /\ Rendered(n)
             /\ css[n] # "hidden"
             /\ Attr(n).pointerEvents # "none"
             /\ 2 * r.left <= x2 /\ x2 < 2 * (r.left + r.width)
             /\ 2 * r.top <= y2 /\ y2 < 2 * (r.top + r.height)
        hits == {i \in 1..Len(order) : Hit(i)}
        Over(i, j) ==
          \/ Attr(order[i]).layer > Attr(order[j]).layer
          \/ Attr(order[i]).layer = Attr(order[j]).layer /\ i >= j
    IN IF hits = {} THEN Body
       ELSE order[CHOOSE i \in hits : \A j \in hits : Over(i, j)]

Min(a, b) == IF a < b THEN a ELSE b
Max(a, b) == IF a > b THEN a ELSE b

\* ------------------------------------------------------ Element Validator
\* isValidComposeElement (inventory-modal-ui.tsx 630-703)
isValidComposeElement(n) ==
  IF n = NULL THEN FALSE
  ELSE
    LET a     == Attr(n)
        style == getComputedStyle(n)
        rect  == getBoundingClientRect(n)
        isTextInput ==
          \/ a.role = "textbox"
          \/ a.contenteditable = "true"
          \/ (a.tag = "input" /\ a.type \in {"text", "search"})
          \/ a.tag = "textarea"
        isInViewport ==
          /\ rect.top + rect.height > 0 - 100 /\ rect.top < innerHeight + 100
          /\ rect.left + rect.width > 0 - 100 /\ rect.left < innerWidth + 100
    IN /\ isTextInput
       /\ ~(a.disabled \/ a.readonly)
       /\ ~(style.display = "none" \/ style.visibility = "hidden")
       /\ ~(~style.opacityNaN /\ style.opacity < 10)
       /\ ~(rect.width < 30 \/ rect.height < 15)
       /\ isInViewport
       /\ style.pointerEvents # "none"
       /\ ~(a.ariaLabel # "" /\ (\/ Includes(a.ariaLabel, "Search")
                                 \/ Includes(a.ariaLabel, "search")
                                 \/ Includes(a.ariaLabel, "Username")
                                 \/ Includes(a.ariaLabel, "Password")))
       /\ ~(a.testid # "" /\ (\/ Includes(a.testid, "search")
                              \/ Includes(a.testid, "Search")
                              \/ Includes(a.testid, "login")
                              \/ Includes(a.testid, "username")))

\* isValidFileInputForClick (inventory-modal-ui.tsx 799-809)
isValidFileInputForClick(n) ==
  LET style == getComputedStyle(n)
      accept == Attr(n).accept
  IN /\ Attr(n).type = "file"
     /\ ~(style.display = "none" \/ style.visibility = "hidden")
     /\ (Includes(accept, "image") \/ Includes(accept, "*/*") \/ accept = "")

\* isValidFileInput of the drag-and-drop path (part_008 247-272)
isValidFileInput(n) ==
  LET style == getComputedStyle(n)
      accept == Attr(n).accept
  IN /\ Attr(n).type = "file"
     /\ ~(style.display = "none" \/ style.visibility = "hidden")
     /\ \/ Includes(accept, "image") \/ Includes(accept, "*/*") \/ accept = ""
        \/ Includes(accept, "png") \/ Includes(accept, "jpg") \/ Includes(accept, "jpeg")
        \/ Includes(accept, "gif") \/ Includes(accept, "webp")

\* --------------------------------------------------- Compose-Area Locator
\* isElementOnTop (490-502)
isElementOnTop(n) ==
  LET rect == getBoundingClientRect(n)
      topElement == elementFromPoint(2 * rect.left + rect.width, 2 * rect.top + rect.height)
  IN IF topElement = NULL THEN FALSE
     ELSE Contains(n, topElement) \/ Contains(topElement, n)

\* scoreComposeElement (507-546), times 100
scoreComposeElement(n) ==
  LET a     == Attr(n)
      rect  == getBoundingClientRect(n)
      style == getComputedStyle(n)
      InDialog(m)    == Attr(m).role = "dialog"
      InAriaModal(m) == Attr(m).ariaModal
      InModalId(m)   == Includes(Attr(m).testid, "Modal")
      score ==
          Min(rect.width, 1000)
        + Min(5 * rect.height, 500)
        + (IF style.visibility # "hidden" /\ style.display # "none" THEN 1000 ELSE 0)
        + (IF ~style.opacityNaN /\ style.opacity > 50 THEN 500 ELSE 0)
        + (IF rect.top >= 0 /\ rect.top + rect.height <= innerHeight THEN 1500 ELSE 0)
        + (IF rect.left >= 0 /\ rect.left + rect.width <= innerWidth THEN 1000 ELSE 0)
        + (IF style.zIndex > 0 THEN Min(style.zIndex, 1000) ELSE 0)
        + (IF Closest(n, InDialog) # NULL THEN 2000 ELSE 0)
        + (IF Closest(n, InAriaModal) # NULL THEN 2000 ELSE 0)
        + (IF Closest(n, InModalId) # NULL THEN 1500 ELSE 0)
        + (IF Includes(a.ariaLabel, "Post") THEN 1000 ELSE 0)
        + (IF Includes(a.testid, "tweet") THEN 1000 ELSE 0)
        + (IF activeElement = n THEN 2500 ELSE 0)
        + (IF Contains(n, activeElement) THEN 1500 ELSE 0)
        - (IF a.disabled THEN 2000 ELSE 0)
        - (IF a.readonly THEN 2000 ELSE 0)
        - (IF style.pointerEvents = "none" THEN 1000 ELSE 0)
  IN Max(0, score)

RECURSIVE BestScored(_, _, _)
\* the loop "if (score > bestScore) { bestScore = score; bestElement = element }"
\* over the valid elements of a list, from (bestElement, bestScore)
BestScored(elements, bestElement, bestScore) ==
  IF elements = <<>> THEN bestElement
  ELSE LET e == Head(elements) IN
       IF isValidComposeElement(e) /\ scoreComposeElement(e) > bestScore
       THEN BestScored(Tail(elements), e, scoreComposeElement(e))
       ELSE BestScored(Tail(elements), bestElement, bestScore)

\* the tests of the loop body without isValidComposeElement
ModalAcceptUnvalidated(n) ==
  LET rect == getBoundingClientRect(n)
  IN /\ rect.width > 100 /\ rect.height > 20
     /\ rect.top >= 0 /\ rect.top + rect.height <= innerHeight
     /\ isElementOnTop(n)
\* the tests of the loop body of findModalComposeArea (466-479)
ModalAccept(n) ==
  LET rect == getBoundingClientRect(n)
  IN /\ isValidComposeElement(n)
     /\ rect.width > 100 /\ rect.height > 20
     /\ rect.top >= 0 /\ rect.top + rect.height <= innerHeight
     /\ isElementOnTop(n)

\* findModalComposeArea (442-485)
findModalComposeArea ==
  LET modalElements == QuerySelectorAll(Body, IsModalMarker)
      Under(n, P(_)) == IsRoleTextbox(n) /\ parentElement(n) # NULL /\ Closest(parentElement(n), P) # NULL
      IsDialog(m)   == Attr(m).role = "dialog"
      IsAModal(m)   == Attr(m).ariaModal
      IsModalId(m)  == Includes(Attr(m).testid, "Modal")
      IsDrawerId(m) == Includes(Attr(m).testid, "Drawer")
      IsFixed(m)    == Attr(m).fixed
      S1(n) == Under(n, IsDialog)
      S2(n) == Under(n, IsAModal)
      S3(n) == Under(n, IsModalId)
      S4(n) == Under(n, IsDrawerId)
      S5(n) == Under(n, IsFixed)
      elements == QuerySelectorAll(Body, S1) \o QuerySelectorAll(Body, S2)
                  \o QuerySelectorAll(Body, S3) \o QuerySelectorAll(Body, S4)
                  \o QuerySelectorAll(Body, S5)
      ok == SelectSeq(elements, ModalAccept)
  IN IF modalElements = <<>> THEN NULL
     ELSE IF ok = <<>> THEN NULL ELSE ok[1]

\* findBestVisibleComposeArea (551-576)
findBestVisibleComposeArea ==
  BestScored(QuerySelectorAll(Body, IsRoleTextbox) \o QuerySelectorAll(Body, IsTweetTextarea)
             \o QuerySelectorAll(Body, IsContentEditable), NULL, 0)

\* the fallback selector list of findActiveComposeArea (307-330), one test per selector
FallbackSelectors(n) ==
  LET a == Attr(n)
  IN << a.role = "textbox" /\ Includes(a.testid, "tweet"),
        a.role = "textbox" /\ a.contenteditable = "true",
        Includes(a.testid, "tweetTextarea"),
        a.testid = "tweetTextarea_0",
        Includes(a.testid, "replyTextarea"),
        a.testid = "dmComposerTextInput",
        Includes(a.ariaLabel, "Post text"),
        Includes(a.ariaLabel, "Tweet text"),
        Includes(a.ariaLabel, "Reply"),
        Includes(a.ariaLabel, "What is happening"),
        a.role = "textbox",
        a.contenteditable = "true" /\ a.dataText,
        a.tag = "div" /\ a.contenteditable = "true" /\ ~a.slate,
        a.cls = "tweet-box",
        a.cls = "compose-text" >>

NumFallbackSelectors == 15

\* Strategy 2 without the validity and attachment test of line 286
RecentCandidateUnchecked ==
  LET Good(n) == scoreComposeElement(n) > 3000
      ok == SelectSeq(recentlyAddedComposeAreas, Good)
  IN IF ok = <<>> THEN NULL ELSE ok[1]

\* Strategy 2 of findActiveComposeArea (284-292): the first recent area that is valid,
\* attached and scores above 30
RecentCandidate ==
  LET Good(n) == /\ isValidComposeElement(n) /\ Attached(n)
                 /\ scoreComposeElement(n) > 3000
      ok == SelectSeq(recentlyAddedComposeAreas, Good)
  IN IF ok = <<>> THEN NULL ELSE ok[1]

\* the first valid match in selector order, without scoring
FallbackCandidateFirst ==
  LET order == Descendants(Body)
      Sel(i) == LET M(n) == FallbackSelectors(n)[i] IN SelectSeq(order, M)
      ok == SelectSeq(Flatten([i \in 1..NumFallbackSelectors |-> Sel(i)]), isValidComposeElement)
  IN IF ok = <<>> THEN NULL ELSE ok[1]
\* Strategy 5 of findActiveComposeArea (332-349)
FallbackCandidate ==
  LET order == Descendants(Body)
      Sel(i) == LET M(n) == FallbackSelectors(n)[i] IN SelectSeq(order, M)
  IN BestScored(Flatten([i \in 1..NumFallbackSelectors |-> Sel(i)]), NULL, 0)

\* the modal strategy tried before the recent candidates
findActiveComposeAreaModalFirst ==
  IF activeElement # NULL /\ isValidComposeElement(activeElement) THEN activeElement
  ELSE IF findModalComposeArea # NULL THEN findModalComposeArea
  ELSE IF RecentCandidate # NULL THEN RecentCandidate
  ELSE IF findBestVisibleComposeArea # NULL THEN findBestVisibleComposeArea
  ELSE FallbackCandidate

\* the focused element not looked at
findActiveComposeAreaNoFocus ==
  IF RecentCandidate # NULL THEN RecentCandidate
  ELSE IF findModalComposeArea # NULL THEN findModalComposeArea
  ELSE IF findBestVisibleComposeArea # NULL THEN findBestVisibleComposeArea
  ELSE FallbackCandidate

\* findActiveComposeArea (277-350)
findActiveComposeArea ==
  IF activeElement # NULL /\ isValidComposeElement(activeElement) THEN activeElement
  ELSE IF RecentCandidate # NULL THEN RecentCandidate
  ELSE IF findModalComposeArea # NULL THEN findModalComposeArea
  ELSE IF findBestVisibleComposeArea # NULL THEN findBestVisibleComposeArea
  ELSE FallbackCandidate

\* ----------------------------------------------------- File-Input Matcher
\* the three file-input selectors, most specific first
InputSelectors(n) ==
  LET a == Attr(n)
  IN << a.tag = "input" /\ a.type = "file" /\ Includes(a.accept, "image"),
        a.tag = "input" /\ a.type = "file",
        a.tag = "input" /\ Includes(a.accept, "image") >>

IsFileTypeInput(n) == Attr(n).tag = "input" /\ Attr(n).type = "file"

\* PRIORITY 1 left out: the search starts at the container hierarchy
ModalScopedInputSkipped(composeArea) == NULL

\* PRIORITY 1 of findFileInputForCompose (710-728)
ModalScopedInput(composeArea) ==
  LET modalContainer == Closest(composeArea, IsModalMarker)
      Sel(i) == LET M(n) == InputSelectors(n)[i] IN QuerySelectorAll(modalContainer, M)
      ok == SelectSeq(Sel(1) \o Sel(2) \o Sel(3), isValidFileInputForClick)
  IN IF modalContainer = NULL \/ ok = <<>> THEN NULL ELSE ok[1]

\* the container list of PRIORITY 2 (731-739), after filter(Boolean)
ContainerCandidates(composeArea) ==
  LET IsToolBar(m) == Attr(m).testid = "toolBar"
      IsTweetId(m) == Includes(Attr(m).testid, "tweet")
      IsPostId(m)  == Includes(Attr(m).testid, "post")
      IsForm(m)    == Attr(m).tag = "form"
      IsMain(m)    == Attr(m).role = "main"
      IsSome(m)    == m # NULL
  IN SelectSeq(<< parentElement(Closest(composeArea, IsToolBar)),
                  Closest(composeArea, IsTweetId),
                  Closest(composeArea, IsPostId),
                  Closest(composeArea, IsForm),
                  Closest(composeArea, IsMain),
                  parentElement(composeArea),
                  parentElement(parentElement(composeArea)) >>, IsSome)

\* PRIORITY 2 of findFileInputForCompose (741-756): per container and selector only
\* the first match of querySelector is tested
ContainerInput(composeArea) ==
  LET containers == ContainerCandidates(composeArea)
      First(c, i) == LET M(n) == InputSelectors(n)[i] IN QuerySelector(c, M)
      tries == Flatten([k \in 1..Len(containers) |->
                 << First(containers[k], 1), First(containers[k], 2), First(containers[k], 3) >>])
      Ok(n) == n # NULL /\ isValidFileInputForClick(n)
      ok == SelectSeq(tries, Ok)
  IN IF ok = <<>> THEN NULL ELSE ok[1]

\* four times the squared distance between the centres of two elements
Distance2(a, b) ==
  LET ra == getBoundingClientRect(a)
      rb == getBoundingClientRect(b)
      dx == (2 * ra.left + ra.width) - (2 * rb.left + rb.width)
      dy == (2 * ra.top + ra.height) - (2 * rb.top + rb.height)
  IN dx * dx + dy * dy

RECURSIVE NearestOrLater(_, _, _)
\* the loop with "<=": a later input at the same distance replaces the earlier one
NearestOrLater(composeArea, inputs, bestInput) ==
  IF inputs = <<>> THEN bestInput
  ELSE LET i == Head(inputs) IN
       IF bestInput = NULL \/ Distance2(composeArea, i) <= Distance2(composeArea, bestInput)
       THEN NearestOrLater(composeArea, Tail(inputs), i)
       ELSE NearestOrLater(composeArea, Tail(inputs), bestInput)

RECURSIVE Nearest(_, _, _)
\* the loop "if (distance < bestDistance) { bestDistance = distance; bestInput = input }"
Nearest(composeArea, inputs, bestInput) ==
  IF inputs = <<>> THEN bestInput
  ELSE LET i == Head(inputs) IN
       IF bestInput = NULL \/ Distance2(composeArea, i) < Distance2(composeArea, bestInput)
       THEN Nearest(composeArea, Tail(inputs), i)
       ELSE Nearest(composeArea, Tail(inputs), bestInput)

\* PRIORITY 3 of findFileInputForCompose (758-793)
ProximityInput(composeArea) ==
  LET modalContainer == Closest(composeArea, IsModalMarker)
      Keep(i) == /\ isValidFileInputForClick(i)
                 /\ (modalContainer # NULL => Closest(i, IsModalMarker) # NULL)
  IN Nearest(composeArea, SelectSeq(QuerySelectorAll(Body, IsFileTypeInput), Keep), NULL)

\* findFileInputForCompose (708-794)
findFileInputForCompose(composeArea) ==
  IF ModalScopedInput(composeArea) # NULL THEN ModalScopedInput(composeArea)
  ELSE IF ContainerInput(composeArea) # NULL THEN ContainerInput(composeArea)
  ELSE ProximityInput(composeArea)

\* findFileInput of the drag-and-drop path (part_008 137-242)
findFileInput(composeArea) ==
  LET IsToolBar(m) == Attr(m).testid = "toolBar"
      IsTweetId(m) == Includes(Attr(m).testid, "tweet")
      IsPostId(m)  == Includes(Attr(m).testid, "post")
      IsComposeId(m) == Includes(Attr(m).testid, "compose")
      IsReplyId(m) == Includes(Attr(m).testid, "reply")
      IsForm(m)    == Attr(m).tag = "form"
      IsMain(m)    == Attr(m).role = "main"
      IsArticle(m) == Attr(m).tag = "article"
      IsSection(m) == Attr(m).tag = "section"
      IsLabelled(m) == Attr(m).labelledby
      IsSome(m)    == m # NULL
      containers ==
        SelectSeq(<< parentElement(Closest(composeArea, IsToolBar)),
                     Closest(composeArea, IsTweetId), Closest(composeArea, IsPostId),
                     Closest(composeArea, IsComposeId), Closest(composeArea, IsReplyId),
                     Closest(composeArea, IsForm), Closest(composeArea, IsMain),
                     Closest(composeArea, IsArticle), Closest(composeArea, IsSection),
                     Closest(composeArea, IsLabelled),
                     parentElement(composeArea),
                     parentElement(parentElement(composeArea)) >>, IsSome)
      Sels(n) ==
        LET a == Attr(n)
        IN InputSelectors(n) \o
           << a.tag = "input" /\ Includes(a.testid, "file"),
              a.tag = "input" /\ Includes(a.testid, "media"),
              a.tag = "input" /\ Includes(a.ariaLabel, "media"),
              a.tag = "input" /\ Includes(a.ariaLabel, "photo"),
              a.tag = "input" /\ Includes(a.ariaLabel, "image") >>
      First(c, i) == LET M(n) == Sels(n)[i] IN QuerySelector(c, M)
      tries == Flatten([k \in 1..Len(containers) |-> [i \in 1..8 |-> First(containers[k], i)]])
      Ok(n) == n # NULL /\ isValidFileInput(n)
      ok == SelectSeq(tries, Ok)
  IN IF ok # <<>> THEN ok[1]
     ELSE Nearest(composeArea, SelectSeq(QuerySelectorAll(Body, IsFileTypeInput), isValidFileInput), NULL)

\* --------------------------------------------------------- Mutation Watcher
SetAdd(set, e) == IF e \in SeqToSet(set) THEN set ELSE Append(set, e)

SetDelete(set, e) == LET Other(x) == x # e IN SelectSeq(set, Other)

RECURSIVE SetAddAll(_, _)
SetAddAll(set, es) == IF es = <<>> THEN set ELSE SetAddAll(SetAdd(set, Head(es)), Tail(es))

\* the addedNodes branch of the observer callback (369-396) for one added element
OnAdded(set, element) ==
  LET withSelf == IF isValidComposeElement(element) THEN SetAdd(set, element) ELSE set
      foundAreas == QuerySelectorAll(element, IsRoleTextbox)
                    \o QuerySelectorAll(element, IsTweetTextarea)
                    \o QuerySelectorAll(element, IsContentEditable)
  IN SetAddAll(withSelf, SelectSeq(foundAreas, isValidComposeElement))

\* the removed element alone forgotten, its detached descendants kept
OnRemovedSelfOnly(set, element) == SetDelete(set, element)
\* the removedNodes branch of the observer callback (399-411) for one removed element
OnRemoved(set, element) == SelectSeq(SetDelete(set, element), Attached)

RECURSIVE ObserverCallback(_, _)
\* the MutationObserver callback (366-413) over a batch of records
ObserverCallback(set, mutations) ==
  IF mutations = <<>> THEN set
  ELSE LET m == Head(mutations)
           afterAdd == IF m.added # NULL THEN OnAdded(set, m.added) ELSE set
           afterRem == IF m.removed # NULL THEN OnRemoved(afterAdd, m.removed) ELSE afterAdd
       IN ObserverCallback(afterRem, Tail(mutations))

\* a DOM or watcher change makes the recorded locator and matcher results stale
ForgetCalls == located' = NoCall /\ matched' = NoMatch

\* the mount effect (908-911): initializeComposeAreaObserver (355-425); the new
\* component instance starts with abortControllerRef.current = null (905)
Mount ==
  /\ ~mounted
  /\ mounts < MaxMounts
  /\ mounted' = TRUE
  /\ mounts' = mounts + 1
  /\ sweepTimers' = sweepTimers + 1
  /\ composeAreaObserver' = TRUE
  /\ pending' = <<>>
  /\ abortControllerRef' = 0
  /\ UNCHANGED <<recentlyAddedComposeAreas, domVars, callVars, orch, last, caught, files, blurTimers, drops>>
  /\ UNCHANGED notUi

\* AbortController.abort() on the controller of call i (0: no controller)
Abort(calls, i) ==
  IF i = 0 \/ calls[i].aborted \/ calls[i].pc = "done" THEN calls
  ELSE [calls EXCEPT ![i].aborted = TRUE, ![i].abortedAt = calls[i].pc]

\* the observer disconnected, the set left as it is
cleanupLeavesSet ==
  /\ composeAreaObserver' = FALSE
  /\ pending' = <<>>
  /\ recentlyAddedComposeAreas' = recentlyAddedComposeAreas

\* cleanupComposeAreaObserver (430-437): disconnect() also drops the undelivered records
cleanupComposeAreaObserver ==
  /\ composeAreaObserver' = FALSE
  /\ pending' = <<>>
  /\ recentlyAddedComposeAreas' = <<>>

\* the unmount cleanup (912-917): abort the current upload and cleanupComposeAreaObserver
Unmount ==
  /\ mounted
  /\ mounted' = FALSE
  /\ orch' = Abort(orch, abortControllerRef)
  /\ cleanupComposeAreaObserver
  /\ ForgetCalls
  /\ UNCHANGED <<domVars, sweepTimers, mounts, last, caught, abortControllerRef, files, blurTimers, drops>>
  /\ UNCHANGED notUi

\* the observer callback runs with the records queued since its last run
MutationCallback ==
  /\ composeAreaObserver
  /\ pending # <<>>
  /\ recentlyAddedComposeAreas' = ObserverCallback(recentlyAddedComposeAreas, pending)
  /\ pending' = <<>>
  /\ ForgetCalls
  /\ UNCHANGED <<domVars, composeAreaObserver, sweepTimers, mounted, mounts, orchVars>>
  /\ UNCHANGED notUi

\* the setInterval callback (362-364)
Sweep ==
  /\ sweepTimers > 0
  /\ recentlyAddedComposeAreas' = <<>>
  /\ ForgetCalls
  /\ UNCHANGED <<domVars, composeAreaObserver, pending, sweepTimers, mounted, mounts, orchVars>>
  /\ UNCHANGED notUi

\* ------------------------------------------------------------ the host page
\* the observer queues a childList record for a change inside document.body
Record(added, removed) ==
  IF composeAreaObserver
  THEN /\ Len(pending) < MaxPending
       /\ pending' = Append(pending, [added |-> added, removed |-> removed])
  ELSE pending' = pending

\* the host attaches element n (with its subtree) under its parent
HostInsert(n) ==
  /\ par[n] = NULL
  /\ par' = [par EXCEPT ![n] = Home(n)]
  /\ IF Attached(Home(n)) THEN Record(n, NULL) ELSE pending' = pending
  /\ ForgetCalls
  /\ UNCHANGED <<css, bgPos, activeElement, composeAreaObserver, recentlyAddedComposeAreas,
                 sweepTimers, mounted, mounts, orchVars>>
  /\ UNCHANGED notUi

\* the host detaches element n (with its subtree); focus inside it falls back to the body
HostRemove(n) ==
  /\ par[n] # NULL
  /\ par' = [par EXCEPT ![n] = NULL]
  /\ IF Attached(n) THEN Record(NULL, n) ELSE pending' = pending
  /\ activeElement' = IF Contains(n, activeElement) THEN Body ELSE activeElement
  /\ ForgetCalls
  /\ UNCHANGED <<css, bgPos, composeAreaObserver, recentlyAddedComposeAreas,
                 sweepTimers, mounted, mounts, orchVars>>
  /\ UNCHANGED notUi

\* the host restyles element n; a hidden element loses focus
HostSetCss(n, v) ==
  /\ css[n] # v
  /\ css' = [css EXCEPT ![n] = v]
  /\ activeElement' = IF activeElement = n /\ v # "shown" THEN Body ELSE activeElement
  /\ ForgetCalls
  /\ UNCHANGED <<par, bgPos, watcherVars, orchVars>>
  /\ UNCHANGED notUi

\* the user focuses a visible element, or the page body
HostFocus(n) ==
  /\ activeElement # n
  /\ IF n = Body THEN TRUE ELSE Rendered(n) /\ css[n] = "shown"
  /\ activeElement' = n
  /\ ForgetCalls
  /\ UNCHANGED <<par, css, bgPos, watcherVars, orchVars>>
  /\ UNCHANGED notUi

\* ------------------------------------------------- locator and matcher calls
\* const activeComposeArea = findActiveComposeArea() (212)
LocateCall ==
  /\ mounted
  /\ located = NoCall
  /\ located' = findActiveComposeArea
  /\ UNCHANGED <<matched, domVars, watcherVars, orchVars>>
  /\ UNCHANGED notUi

\* const fileInput = findFileInputForCompose(activeComposeArea) (220)
MatchCall ==
  /\ mounted
  /\ located \notin {NoCall, NULL}
  /\ matched = NoMatch
  /\ matched' = [compose |-> located, input |-> findFileInputForCompose(located)]
  /\ UNCHANGED <<located, domVars, watcherVars, orchVars>>
  /\ UNCHANGED notUi

Removable == {BgBox, DialogEl, ModalInput}
Restylable == {BgInput, ModalInput}
Focusable == {Body, BgBox, ModalBox}
\* ------------------------------------------------------------------ retry utility (withRetry)

\* TIMING_CONSTANTS.RETRY_MAX_ATTEMPTS, the default of maxAttempts
RETRY_MAX_ATTEMPTS == 3

\* lastError before any attempt failed (undefined)
NoError == [name |-> "", message |-> "", status |-> 0]

\* the errors the operation rejects with; status 0 stands for "no status property"
Errors ==
  {[name |-> "AbortError", message |-> "timeout",         status |-> 0],
   [name |-> "Error",      message |-> "Rate limit",      status |-> 0],
   [name |-> "TypeError",  message |-> "Failed to fetch", status |-> 0],
   [name |-> "Error",      message |-> "",                status |-> 429],
   [name |-> "Error",      message |-> "",                status |-> 500],
   [name |-> "Error",      message |-> "",                status |-> 404],
   [name |-> "Error",      message |-> "bad input",       status |-> 0]}

defaultShouldRetry(error) ==
  IF error.name = "AbortError" THEN FALSE
  ELSE IF Includes(error.message, "Rate limit") THEN TRUE
  ELSE IF Includes(error.message, "timeout") THEN TRUE
  ELSE IF Includes(error.message, "network") THEN TRUE
  ELSE IF Includes(error.message, "fetch") THEN TRUE
  ELSE IF error.status \in {429, 502, 503, 504} THEN TRUE
  ELSE error.status >= 500 /\ error.status < 600

\* options.shouldRetry: the default policy, or a caller's predicate
Policies == {"default", "always", "never"}

\* the shouldRetry predicate retryNFTFetch passes to withRetry
nftShouldRetry(error) ==
  IF Includes(error.message, "authentication") THEN FALSE
  ELSE IF Includes(error.message, "API key") THEN FALSE
  ELSE IF Includes(error.message, "Unauthorized") THEN FALSE
  ELSE defaultShouldRetry(error)

shouldRetry(policy, error) ==
  CASE policy = "default" -> defaultShouldRetry(error)
    [] policy = "nft"     -> nftShouldRetry(error)
    [] policy = "always"  -> TRUE
    [] policy = "never"   -> FALSE

\* no RetryError thrown
NoRetryError ==
  [name |-> "", attempts |-> 0, messageAttempts |-> 0, lastError |-> NoError, isRetryable |-> FALSE]

NoRetry ==
  [pc |-> "idle", policy |-> "default", maxAttempts |-> RETRY_MAX_ATTEMPTS, attempt |-> 0,
   calls |-> 0, lastError |-> NoError, thrown |-> NoRetryError]

\* the two breaks of the catch block: the last attempt, or an error not to retry
GivesUpOnLast(attempt, maxAttempts, retryable) == attempt = maxAttempts
GivesUp(attempt, maxAttempts, retryable) == attempt = maxAttempts \/ ~retryable

\* the RetryError built after the loop
RetryErrorOf(r) ==
  [name            |-> "Error",
   attempts        |-> r.maxAttempts,
   messageAttempts |-> r.maxAttempts,
   lastError       |-> r.lastError,
   isRetryable     |-> shouldRetry(r.policy, r.lastError)]

\* withRetry(operation, {maxAttempts, shouldRetry}) up to its first await: attempt 1 invokes operation
WithRetry(maxAttempts, policy) ==
  /\ retry.pc \in {"idle", "returned", "thrown"}
  /\ retry' = [pc |-> "calling", policy |-> policy, maxAttempts |-> maxAttempts, attempt |-> 1,
               calls |-> 1, lastError |-> NoError, thrown |-> NoRetryError]
  /\ UNCHANGED notRetry

\* operation() fulfils: withRetry returns the result
OperationResolve ==
  /\ retry.pc = "calling"
  /\ retry' = [retry EXCEPT !.pc = "returned"]
  /\ UNCHANGED notRetry

\* the catch block for an error of operation(), then either the throw after the loop or the sleep
AfterReject(r, error) ==
  IF GivesUp(r.attempt, r.maxAttempts, shouldRetry(r.policy, error))
  THEN [r EXCEPT !.pc = "thrown", !.lastError = error,
                 !.thrown = RetryErrorOf([r EXCEPT !.lastError = error])]
  ELSE [r EXCEPT !.pc = "sleeping", !.lastError = error]

\* after sleep(delay): attempt++, the loop test, and the next invocation of operation
AfterSleep(r) ==
  IF r.attempt + 1 <= r.maxAttempts
  THEN [r EXCEPT !.pc = "calling", !.attempt = @ + 1, !.calls = @ + 1]
  ELSE [r EXCEPT !.pc = "thrown", !.attempt = @ + 1, !.thrown = RetryErrorOf(r)]

\* operation() rejects
OperationReject(error) ==
  /\ retry.pc = "calling"
  /\ retry' = AfterReject(retry, error)
  /\ UNCHANGED notRetry

\* sleep(delay) is over
SleepDone ==
  /\ retry.pc = "sleeping"
  /\ retry' = AfterSleep(retry)
  /\ UNCHANGED notRetry

\* ------------------------------------------------------------------ OpenSea fetch (fetchNFTsFromOpenSea)

\* what fetch rejects with when controller.abort() fires
AbortErr == [name |-> "AbortError", message |-> "signal is aborted without reason", status |-> 0]
NetworkErr == [name |-> "TypeError", message |-> "Failed to fetch", status |-> 0]
\* the errors the operation throws for a response that is not ok
RateLimitErr ==
  [name |-> "Error", status |-> 0,
   message |-> "Rate limit exceeded. Please try again later. Consider adding an OpenSea API key."]
AuthErr ==
  [name |-> "Error", status |-> 0,
   message |-> "OpenSea API authentication failed. Please check your API key."]
ApiErr == [name |-> "Error", message |-> "OpenSea API error: 500", status |-> 0]
\* what response.json() rejects with
JsonErr == [name |-> "SyntaxError", message |-> "Unexpected token", status |-> 0]

Statuses == {200, 401, 404, 429, 500}

NoOpenSea == [pc |-> "idle", hasKey |-> FALSE, timedOut |-> FALSE, message |-> ""]

\* the catch block of fetchNFTsFromOpenSea: the message of the error it throws
OpenSeaCatch(error) ==
  IF error.name = "AbortError" THEN "Request timeout. Please check your connection and try again."
  ELSE "Failed to fetch NFTs"

\* the operation of the current attempt rejects with error: withRetry's catch block and, when
\* withRetry throws, the catch block of fetchNFTsFromOpenSea
OpenSeaReject(error, timedOut) ==
  \E r \in {AfterReject(retry, error)} :
    /\ retry' = r
    /\ opensea' = IF r.pc = "thrown"
                  THEN [opensea EXCEPT !.pc = "thrown", !.timedOut = timedOut,
                                       !.message = OpenSeaCatch(r.thrown)]
                  ELSE [opensea EXCEPT !.pc = "sleeping", !.timedOut = timedOut]

\* fetchNFTsFromOpenSea(address, chain) up to the first fetch
OpenSeaCall(hasKey) ==
  /\ opensea.pc \in {"idle", "returned", "thrown"}
  /\ retry' = [pc |-> "calling", policy |-> "nft", maxAttempts |-> RETRY_MAX_ATTEMPTS,
               attempt |-> 1, calls |-> 1, lastError |-> NoError, thrown |-> NoRetryError]
  /\ opensea' = [pc |-> "fetching", hasKey |-> hasKey, timedOut |-> FALSE, message |-> ""]
  /\ UNCHANGED notRetryOpensea

\* the REQUEST_TIMEOUT timer of fetchWithTimeout fires: controller.abort(), fetch rejects
RequestTimeout ==
  /\ opensea.pc = "fetching"
  /\ OpenSeaReject(AbortErr, TRUE)
  /\ UNCHANGED notRetryOpensea

\* fetch rejects with a network error
OpenSeaFetchReject ==
  /\ opensea.pc = "fetching"
  /\ OpenSeaReject(NetworkErr, FALSE)
  /\ UNCHANGED notRetryOpensea

\* fetch resolves with a response of the given status
OpenSeaResponse(status) ==
  /\ opensea.pc = "fetching"
  /\ CASE status = 429 -> OpenSeaReject(RateLimitErr, FALSE)
       [] status = 401 -> OpenSeaReject(AuthErr, FALSE)
       [] status = 404 -> /\ retry' = [retry EXCEPT !.pc = "returned"]
                          /\ opensea' = [opensea EXCEPT !.pc = "returned"]
       [] status = 200 -> /\ opensea' = [opensea EXCEPT !.pc = "json"]
                          /\ UNCHANGED retry
       [] OTHER        -> /\ opensea' = [opensea EXCEPT !.pc = "text"]
                          /\ UNCHANGED retry
  /\ UNCHANGED notRetryOpensea

\* response.text() settles (a rejection is replaced by "Unknown error"): the operation throws
OpenSeaTextDone ==
  /\ opensea.pc = "text"
  /\ OpenSeaReject(ApiErr, FALSE)
  /\ UNCHANGED notRetryOpensea

\* response.json() settles
OpenSeaJsonDone(ok) ==
  /\ opensea.pc = "json"
  /\ IF ok
     THEN /\ retry' = [retry EXCEPT !.pc = "returned"]
          /\ opensea' = [opensea EXCEPT !.pc = "returned"]
     ELSE OpenSeaReject(JsonErr, FALSE)
  /\ UNCHANGED notRetryOpensea

\* withRetry's sleep is over: the next attempt calls fetchWithTimeout again
OpenSeaSleepDone ==
  /\ opensea.pc = "sleeping"
  /\ retry' = AfterSleep(retry)
  /\ opensea' = [opensea EXCEPT !.pc = "fetching", !.timedOut = FALSE]
  /\ UNCHANGED notRetryOpensea

\* ------------------------------------------------------------------ NFT cache (fetchUserNFTsWithCache)

\* TIMING_CONSTANTS.NFT_CACHE_DURATION
CACHE_DURATION == 5 * 60 * 1000

\* the clock advances in steps of half the cache duration
TickMs == CACHE_DURATION \div 2

Chains == {"ethereum", "base"}

\* wallet addresses as the caller passes them: the same account in two spellings
Addresses == {<<"0", "x", "A", "B">>, <<"0", "x", "a", "b">>}

\* String.prototype.toLowerCase
toLowerCase(str) ==
  [i \in DOMAIN str |->
     CASE str[i] = "A" -> "a"
       [] str[i] = "B" -> "b"
       [] OTHER        -> str[i]]

cacheKey(chain, address) == [chain |-> chain, address |-> toLowerCase(address)]

CacheKeys == {cacheKey(chain, address) : chain \in Chains, address \in Addresses}

\* nftCache.get(key) === undefined
NoEntry == [nfts |-> <<>>, errors |-> <<>>, timestamp |-> 0 - 1]

\* an NFTFetchError, as far as the cache looks at it
ConfigError == [isConfigurationError |-> TRUE]

\* what fetchUserNFTs resolves with at time t: the NFTs the wallet holds at t (or none), and
\* the errors of the providers that failed (<<>> for undefined)
FetchResults(t) ==
  {[nfts |-> list, errors |-> errors] : list \in {<<>>, <<t>>}, errors \in {<<>>, <<ConfigError>>}}

NoResult == [nfts |-> <<>>, errors |-> <<>>]

\* cached && Date.now() - cached.timestamp < CACHE_DURATION
CacheValidInclusive(cached, t) == cached # NoEntry /\ t - cached.timestamp <= CACHE_DURATION
CacheValid(cached, t) == cached # NoEntry /\ t - cached.timestamp < CACHE_DURATION

\* result.nfts.length > 0 || !result.errors?.some(e => e.isConfigurationError)
Cacheable(result) ==
  \/ Len(result.nfts) > 0
  \/ ~(\E i \in DOMAIN result.errors : result.errors[i].isConfigurationError)

NoAnswer ==
  [key |-> cacheKey("ethereum", <<>>), at |-> 0, cached |-> NoEntry, provider |-> FALSE,
   result |-> NoResult, nfts |-> <<>>, errors |-> <<>>, fromCache |-> FALSE,
   returned |-> 0]

\* the clock moves on
Tick ==
  /\ now < MaxTicks * TickMs
  /\ now' = now + TickMs
  /\ UNCHANGED <<nftCache, fetches, answer>>
  /\ UNCHANGED notCache

\* fetchUserNFTsWithCache(address, chain) up to its return or its await of fetchUserNFTs
CacheCall(address, chain) ==
  /\ \E key \in {cacheKey(chain, address)} :
       IF CacheValid(nftCache[key], now)
       THEN /\ answer' = [key |-> key, at |-> now, cached |-> nftCache[key], provider |-> FALSE,
                          result |-> NoResult, nfts |-> nftCache[key].nfts,
                          errors |-> nftCache[key].errors, fromCache |-> TRUE,
                          returned |-> now]
            /\ UNCHANGED fetches
       ELSE /\ Len(fetches) < MaxFetches
            /\ fetches' = Append(fetches, [key |-> key, at |-> now, cached |-> nftCache[key]])
            /\ UNCHANGED answer
  /\ UNCHANGED <<now, nftCache>>
  /\ UNCHANGED notCache

\* nftCache.set(cacheKey, ...) behind the test of what may be cached (749-760)
CacheWrite(c, result) ==
  IF Cacheable(result)
  THEN [nftCache EXCEPT ![c.key] =
          [nfts |-> result.nfts, errors |-> result.errors, timestamp |-> now]]
  ELSE nftCache

\* what call c returns once fetchUserNFTs resolved with result (762-770)
CacheReturn(c, result) ==
  IF Len(result.nfts) = 0 /\ c.cached # NoEntry
  THEN [key |-> c.key, at |-> c.at, cached |-> c.cached, provider |-> TRUE,
        result |-> result, nfts |-> c.cached.nfts,
        errors |-> result.errors \o c.cached.errors, fromCache |-> TRUE, returned |-> now]
  ELSE [key |-> c.key, at |-> c.at, cached |-> c.cached, provider |-> TRUE,
        result |-> result, nfts |-> result.nfts,
        errors |-> result.errors, fromCache |-> FALSE, returned |-> now]

\* fetchUserNFTs resolves for the i-th waiting call: the cache write and the return
FetchDone(i, result) ==
  /\ i \in DOMAIN fetches
  /\ nftCache' = CacheWrite(fetches[i], result)
  /\ answer' = CacheReturn(fetches[i], result)
  /\ fetches' = [j \in 1..(Len(fetches) - 1) |-> IF j < i THEN fetches[j] ELSE fetches[j + 1]]
  /\ UNCHANGED now
  /\ UNCHANGED notCache

\* ------------------------------------------------------------------ provider fallback (fetchUserNFTs)

\* the chains a caller passes: the three of CHAIN_CONFIGS and one that has no entry
UserChains == {"ethereum", "abstract-mainnet", "abstract-testnet", "base"}

\* chainConfig?.alchemy
HasAlchemy(chain) == chain \in {"ethereum", "abstract-mainnet"}

\* what a provider resolves with
ProviderLists == {<<>>, <<"nft1">>, <<"nft1", "nft2">>}

\* generateMockNFTsForAbstractTestnet()
MockNFTs == <<"abstract-test-demo-1", "abstract-test-demo-2", "abstract-test-demo-3">>

\* why a provider call fails, as far as createNFTError tells causes apart: a message holding
\* "API key", "authentication" or "not configured", or any other
Causes == {"configuration", "other"}

createNFTError(service, cause) ==
  [service |-> service, isConfigurationError |-> cause = "configuration"]

\* the notice added to the mock list
MockNotice == [service |-> "unknown", isConfigurationError |-> FALSE]

NoUserFetch ==
  [pc |-> "idle", chain |-> "ethereum", tried |-> <<>>, failed |-> 0, errors |-> <<>>, nfts |-> <<>>]

\* the call of the next provider
Try(u, provider) == [u EXCEPT !.pc = provider, !.tried = Append(@, provider)]

\* a provider resolved, or the mock list is handed out: return { nfts, errors }
Return(u, list, errors) == [u EXCEPT !.pc = "returned", !.nfts = list, !.errors = errors]

\* a catch block: errors.push(createNFTError(service, error))
PushUnrecorded(u, service, cause) == [u EXCEPT !.failed = @ + 1]
Push(u, service, cause) ==
  [u EXCEPT !.failed = @ + 1, !.errors = Append(@, createNFTError(service, cause))]

\* fetchUserNFTs(address, chain) up to its first await
FetchUserNFTs(chain) ==
  /\ userFetch.pc \in {"idle", "returned"}
  /\ userFetch' = Try([NoUserFetch EXCEPT !.chain = chain],
                      IF chain = "abstract-testnet" THEN "testnet"
                      ELSE IF HasAlchemy(chain) THEN "alchemy"
                      ELSE "opensea")
  /\ UNCHANGED notUser

\* fetchNFTsFromAbstractTestnet settles: its list, or the mock list with the error and a notice
TestnetDone(ok, list, cause) ==
  /\ userFetch.pc = "testnet"
  /\ userFetch' = IF ok
                  THEN Return(userFetch, list, <<>>)
                  ELSE \* generateMockNFTsForAbstractTestnet builds a constant list: it cannot throw
                       Return(Push(userFetch, "unknown", cause), MockNFTs,
                              Append(Push(userFetch, "unknown", cause).errors, MockNotice))
  /\ UNCHANGED notUser

\* fetchNFTsFromAlchemy settles: its list, or the error is kept and OpenSea is called
AlchemyDone(ok, list, cause) ==
  /\ userFetch.pc = "alchemy"
  /\ userFetch' = IF ok
                  THEN Return(userFetch, list, <<>>)
                  ELSE Try(Push(userFetch, "alchemy", cause), "opensea")
  /\ UNCHANGED notUser

\* fetchNFTsFromOpenSea settles: its list with the errors so far, or the outer catch block and
\* the return of the empty list with all errors
OpenSeaDone(ok, list, cause) ==
  /\ userFetch.pc = "opensea"
  /\ userFetch' = IF ok
                  THEN Return(userFetch, list, userFetch.errors)
                  ELSE Return(Push(userFetch, "opensea", cause), <<>>,
                              Push(userFetch, "opensea", cause).errors)
  /\ UNCHANGED notUser

\* ------------------------------------------------------------------ Alchemy fetch (fetchNFTsFromAlchemy)

\* CHAIN_CONFIGS[chain].alchemy.baseUrl, its host
AlchemyHost(chain) ==
  CASE chain = "ethereum"         -> "eth-mainnet.g.alchemy.com"
    [] chain = "abstract-mainnet" -> "abstract-mainnet.g.alchemy.com"
    [] OTHER                      -> ""

\* the host of the url the function builds for its request
RequestHost(chain) == "abstract-mainnet.g.alchemy.com"

\* API_KEYS.ALCHEMY_ACCESS_TOKEN: missing, or one of two tokens
AccessTokens == {"", "token1", "token2"}

AlchemyStatuses == {200, 401, 429, 500}

NoAlchemy ==
  [pc |-> "idle", chain |-> "ethereum", host |-> "", token |-> "", message |-> "", nfts |-> <<>>]

\* a throw inside the try block: the catch block wraps the message
AlchemyCatch(a) ==
  [a EXCEPT !.pc = "thrown", !.message = "Failed to fetch NFTs from Alchemy"]

\* fetchNFTsFromAlchemy(address, chain) up to a throw of its guards or to the request
AlchemyCall(chain, valid, accessToken) ==
  /\ alchemy.pc \in {"idle", "returned", "thrown"}
  /\ alchemy' =
       IF ~valid
       THEN [NoAlchemy EXCEPT !.pc = "thrown", !.chain = chain,
                              !.message = "Invalid wallet address format"]
       ELSE IF ~HasAlchemy(chain)
       THEN [NoAlchemy EXCEPT !.pc = "thrown", !.chain = chain,
                              !.message = "Alchemy not supported for chain"]
       ELSE IF accessToken = ""
       THEN [NoAlchemy EXCEPT !.pc = "thrown", !.chain = chain,
                              !.message = "Alchemy access token not configured"]
       ELSE [NoAlchemy EXCEPT !.pc = "fetching", !.chain = chain, !.host = RequestHost(chain),
                              !.token = accessToken]
  /\ UNCHANGED notAlchemy

\* fetchWithTimeout rejects (network error or timeout)
AlchemyFetchReject ==
  /\ alchemy.pc = "fetching"
  /\ alchemy' = AlchemyCatch(alchemy)
  /\ UNCHANGED notAlchemy

\* fetchWithTimeout resolves with a response of the given status
AlchemyResponse(status) ==
  /\ alchemy.pc = "fetching"
  /\ alchemy' = IF status = 200
                THEN [alchemy EXCEPT !.pc = "json"]
                ELSE AlchemyCatch(alchemy)
  /\ UNCHANGED notAlchemy

\* response.json() settles: the processed list is returned
AlchemyJsonDone(ok, list) ==
  /\ alchemy.pc = "json"
  /\ alchemy' = IF ok
                THEN [alchemy EXCEPT !.pc = "returned", !.nfts = list]
                ELSE AlchemyCatch(alchemy)
  /\ UNCHANGED notAlchemy

\* ------------------------------------------------------------------ refresh of an empty cached list (loadNFTs 1059-1072)

NoCacheCall == [key |-> cacheKey("ethereum", <<>>), at |-> 0, cached |-> NoEntry]

NoRefresh ==
  [pc |-> "idle", key |-> cacheKey("ethereum", <<>>), call |-> NoCacheCall, removed |-> FALSE,
   provider |-> FALSE]

\* result.fromCache && (!result.nfts || result.nfts.length === 0) for the answer the modal got:
\* it awaits chrome.storage.local.remove(`nft-cache-${address}-${targetChain}`)
RefreshStart ==
  /\ refresh.pc \in {"idle", "settled"}
  /\ answer # NoAnswer
  /\ answer.fromCache /\ Len(answer.nfts) = 0
  /\ answer.returned = now
  /\ refresh' = [pc |-> "removing", key |-> answer.key, call |-> NoCacheCall, removed |-> FALSE,
                 provider |-> FALSE]
  /\ UNCHANGED cacheVars
  /\ UNCHANGED notCacheRefresh

\* chrome.storage.local.remove settles; nftCache, the Map inside the service, is not touched by
\* it. On success the modal calls fetchUserNFTsWithCache again, up to its return or its await
RefreshRemoved(ok) ==
  /\ refresh.pc = "removing"
  /\ IF ~ok
     THEN /\ refresh' = [refresh EXCEPT !.pc = "settled"]
          /\ UNCHANGED answer
     ELSE IF CacheValid(nftCache[refresh.key], now)
     THEN /\ answer' = [key |-> refresh.key, at |-> now, cached |-> nftCache[refresh.key],
                        provider |-> FALSE, result |-> NoResult,
                        nfts |-> nftCache[refresh.key].nfts,
                        errors |-> nftCache[refresh.key].errors, fromCache |-> TRUE,
                        returned |-> now]
          /\ refresh' = [refresh EXCEPT !.pc = "settled", !.removed = TRUE]
     ELSE /\ refresh' = [refresh EXCEPT !.pc = "second", !.removed = TRUE,
                           !.call = [key |-> refresh.key, at |-> now, cached |-> nftCache[refresh.key]]]
          /\ UNCHANGED answer
  /\ UNCHANGED <<now, nftCache, fetches>>
  /\ UNCHANGED notCacheRefresh

\* fetchUserNFTs resolves for the modal's second call
RefreshFetchDone(result) ==
  /\ refresh.pc = "second"
  /\ nftCache' = CacheWrite(refresh.call, result)
  /\ answer' = CacheReturn(refresh.call, result)
  /\ refresh' = [refresh EXCEPT !.pc = "settled", !.provider = TRUE, !.call = NoCacheCall]
  /\ UNCHANGED <<now, fetches>>
  /\ UNCHANGED notCacheRefresh

\* ------------------------------------------------------------------ toolbar button (inventory-button)

Toolbars == 1..MaxToolbars

\* a toolbar element: whether it is in the document, whether it holds a
\* [data-testid="ScrollSnap-List"], and how many #BTN_ID buttons that list holds; before the
\* host has rendered it, it is nowhere
NoToolbar == [attached |-> FALSE, list |-> FALSE, buttons |-> 0]

\* injectButton(toolbar): the toolbar afterwards
injectButtonUnchecked(toolbar) ==
  IF ~toolbar.list THEN toolbar
  ELSE [toolbar EXCEPT !.buttons = @ + 1]
injectButton(toolbar) ==
  IF toolbar.buttons > 0 THEN toolbar
  ELSE IF ~toolbar.list THEN toolbar
  ELSE [toolbar EXCEPT !.buttons = @ + 1]

\* scanAndInjectNiftoryIcon(): injectButton on every toolbar of the document
scanAndInjectNiftoryIcon(tbs) ==
  [t \in Toolbars |-> IF tbs[t].attached THEN injectButton(tbs[t]) ELSE tbs[t]]

\* the content script runs: observer.observe(...) and the first pass
FirstPass ==
  /\ btnObserver = "none"
  /\ btnObserver' = "observing"
  /\ toolbars' = scanAndInjectNiftoryIcon(toolbars)
  /\ btnPending' = (toolbars' # toolbars)
  /\ UNCHANGED notButton

\* the observer callback: one scan per delivered batch; its own insertions are recorded again
ButtonObserverCallback ==
  /\ btnObserver = "observing"
  /\ btnPending
  /\ toolbars' = scanAndInjectNiftoryIcon(toolbars)
  /\ btnPending' = (toolbars' # toolbars)
  /\ UNCHANGED btnObserver
  /\ UNCHANGED notButton

\* cleanupObserver (beforeunload, pagehide, visibilitychange to hidden): observer.disconnect()
CleanupObserver ==
  /\ btnObserver = "observing"
  /\ btnObserver' = "disconnected"
  /\ btnPending' = FALSE
  /\ UNCHANGED toolbars
  /\ UNCHANGED notButton

\* the host page changes toolbar t: it attaches or detaches the toolbar, gives it a list or
\* takes the list (with whatever it holds) away, or re-renders the list without the button
HostToolbar(t, change) ==
  /\ toolbars' =
       CASE change = "attach"  -> [toolbars EXCEPT ![t].attached = ~@]
         [] change = "list"    -> [toolbars EXCEPT ![t].list = ~@, ![t].buttons = 0]
         [] change = "rerender" -> [toolbars EXCEPT ![t].buttons = 0]
  /\ toolbars' # toolbars
  /\ btnPending' = (btnPending \/ btnObserver = "observing")
  /\ UNCHANGED btnObserver
  /\ UNCHANGED notButton

\* ------------------------------------------------------------------ wallet NFT list (loadNFTs effect)

\* what useAbstractWallet() reports: not connected, one of two accounts, or disconnecting
Wallets ==
  {[address |-> "",     isDisconnecting |-> FALSE],
   [address |-> "0xa1", isDisconnecting |-> FALSE],
   [address |-> "0xa2", isDisconnecting |-> FALSE],
   [address |-> "0xa1", isDisconnecting |-> TRUE]}

\* what fetchUserNFTsWithCache(address, 'ethereum') resolves with
LoadResults(address) ==
  {[nfts |-> l, errors |-> e, fromCache |-> c] :
     l \in {<<>>, <<address>>}, e \in {<<>>, <<"opensea">>}, c \in BOOLEAN}

\* a loadNFTs call that has returned
DoneLoad == [address |-> "", aborted |-> FALSE, pc |-> "done"]

\* controller.abort() on the controller of load i (0: no controller)
AbortLoad(ls, i) == IF i = 0 THEN ls ELSE [ls EXCEPT ![i].aborted = TRUE]

\* the finally block (1085-1089); isDisconnecting is the false of the effect's closure
Finally(l) ==
  isLoadingNFTs' = IF isMountedRef THEN FALSE ELSE isLoadingNFTs

\* freshResult handling (1065-1068)
SecondWrite(l, result) ==
  IF Len(result.nfts) > 0
  THEN nfts' = result.nfts /\ fromCache' = FALSE
  ELSE UNCHANGED <<nfts, fromCache>>

\* the wallet hook reports w: the cleanup of the previous effect (1098-1103), then the effect
\* (1023-1096) up to the first await of loadNFTs
RunEffect(w) ==
  /\ isMountedRef
  /\ w # wallet
  /\ wallet' = w
  /\ \E cleaned \in {AbortLoad(loads, nftFetchControllerRef)} :
       IF w.isDisconnecting
       THEN /\ loads' = cleaned
            /\ nftFetchControllerRef' = 0
            /\ UNCHANGED <<nfts, fetchErrors, fromCache, isLoadingNFTs>>
       ELSE IF w.address # ""
       THEN /\ Len(loads) < MaxLoads
            /\ loads' = Append(cleaned, [address |-> w.address, aborted |-> FALSE, pc |-> "first"])
            /\ nftFetchControllerRef' = Len(loads) + 1
            /\ isLoadingNFTs' = TRUE
            /\ fetchErrors' = <<>>
            /\ fromCache' = FALSE
            /\ UNCHANGED nfts
       ELSE /\ loads' = cleaned
            /\ nftFetchControllerRef' = 0
            /\ nfts' = <<>>
            /\ fetchErrors' = <<>>
            /\ fromCache' = FALSE
            /\ isLoadingNFTs' = FALSE
  /\ UNCHANGED isMountedRef
  /\ UNCHANGED notLoad

\* NFTORY_RETRY_FETCH: retryTrigger changes and the effect runs again for the same wallet
RetryFetch ==
  /\ isMountedRef
  /\ ~wallet.isDisconnecting /\ wallet.address # ""
  /\ Len(loads) < MaxLoads
  /\ loads' = Append(AbortLoad(loads, nftFetchControllerRef),
                     [address |-> wallet.address, aborted |-> FALSE, pc |-> "first"])
  /\ nftFetchControllerRef' = Len(loads) + 1
  /\ isLoadingNFTs' = TRUE
  /\ fetchErrors' = <<>>
  /\ fromCache' = FALSE
  /\ UNCHANGED <<wallet, nfts, isMountedRef>>
  /\ UNCHANGED notLoad

\* NFTORY_WALLET_DISCONNECTED: clearAllNFTState (927-943)
WalletDisconnected ==
  /\ isMountedRef
  /\ loads' = AbortLoad(loads, nftFetchControllerRef)
  /\ nftFetchControllerRef' = 0
  /\ nfts' = <<>>
  /\ fetchErrors' = <<>>
  /\ fromCache' = FALSE
  /\ isLoadingNFTs' = FALSE
  /\ UNCHANGED <<wallet, isMountedRef>>
  /\ UNCHANGED notLoad

\* the component unmounts: the cleanup of the mount effect (912-917) and of the fetch effect
LoadUnmount ==
  /\ isMountedRef
  /\ isMountedRef' = FALSE
  /\ loads' = AbortLoad(loads, nftFetchControllerRef)
  /\ nftFetchControllerRef' = 0
  /\ UNCHANGED <<wallet, nfts, fetchErrors, fromCache, isLoadingNFTs>>
  /\ UNCHANGED notLoad

\* the first fetchUserNFTsWithCache of load i resolves (1050-1072)
LoadResolve(i, result) ==
  /\ i \in DOMAIN loads
  /\ loads[i].pc = "first"
  /\ result \in LoadResults(loads[i].address)
  /\ IF loads[i].aborted \/ ~isMountedRef
     THEN /\ UNCHANGED <<nfts, fetchErrors, fromCache>>
          /\ Finally(loads[i])
          /\ loads' = [loads EXCEPT ![i] = DoneLoad]
     ELSE /\ fetchErrors' = result.errors
          /\ IF result.fromCache /\ Len(result.nfts) = 0
             THEN /\ nfts' = result.nfts
                  /\ fromCache' = result.fromCache
                  /\ loads' = [loads EXCEPT ![i].pc = "remove"]
                  /\ UNCHANGED isLoadingNFTs
             ELSE /\ nfts' = result.nfts
                  /\ fromCache' = result.fromCache
                  /\ Finally(loads[i])
                  /\ loads' = [loads EXCEPT ![i] = DoneLoad]
  /\ nftFetchControllerRef' = nftFetchControllerRef
  /\ UNCHANGED <<wallet, isMountedRef>>
  /\ UNCHANGED notLoad

\* the first fetchUserNFTsWithCache of load i rejects: the catch block (1075-1084)
LoadReject(i) ==
  /\ i \in DOMAIN loads
  /\ loads[i].pc = "first"
  /\ IF ~loads[i].aborted /\ isMountedRef
     THEN nfts' = <<>> /\ fetchErrors' = <<"unknown">>
     ELSE UNCHANGED <<nfts, fetchErrors>>
  /\ Finally(loads[i])
  /\ loads' = [loads EXCEPT ![i] = DoneLoad]
  /\ UNCHANGED <<wallet, nftFetchControllerRef, fromCache, isMountedRef>>
  /\ UNCHANGED notLoad

\* chrome.storage.local.remove settles (1062): on success the second fetch starts
StorageRemoved(i, ok) ==
  /\ i \in DOMAIN loads
  /\ loads[i].pc = "remove"
  /\ IF ok
     THEN /\ loads' = [loads EXCEPT ![i].pc = "second"]
          /\ UNCHANGED isLoadingNFTs
     ELSE /\ Finally(loads[i])
          /\ loads' = [loads EXCEPT ![i] = DoneLoad]
  /\ UNCHANGED <<wallet, nftFetchControllerRef, nfts, fetchErrors, fromCache, isMountedRef>>
  /\ UNCHANGED notLoad

\* the second fetchUserNFTsWithCache of load i resolves (1063-1068)
FreshResolve(i, result) ==
  /\ i \in DOMAIN loads
  /\ loads[i].pc = "second"
  /\ result \in LoadResults(loads[i].address)
  /\ SecondWrite(loads[i], result)
  /\ Finally(loads[i])
  /\ loads' = [loads EXCEPT ![i] = DoneLoad]
  /\ UNCHANGED <<wallet, nftFetchControllerRef, fetchErrors, isMountedRef>>
  /\ UNCHANGED notLoad

\* the second fetchUserNFTsWithCache of load i rejects: silently handled (1069-1071)
FreshReject(i) ==
  /\ i \in DOMAIN loads
  /\ loads[i].pc = "second"
  /\ Finally(loads[i])
  /\ loads' = [loads EXCEPT ![i] = DoneLoad]
  /\ UNCHANGED <<wallet, nftFetchControllerRef, nfts, fetchErrors, fromCache, isMountedRef>>
  /\ UNCHANGED notLoad

Styles == {"shown", "none", "hidden"}

DomInit ==
  /\ par \in {[n \in Nodes |-> IF n \in Hosted THEN NULL ELSE Home(n)],
              [n \in Nodes |-> IF n \in Hosted \cup {DialogEl} THEN NULL ELSE Home(n)]}
  /\ css = [n \in Nodes |-> "shown"]
  /\ bgPos \in {"in", "off"}
  /\ activeElement = Body
  /\ composeAreaObserver = FALSE
  /\ recentlyAddedComposeAreas = <<>>
  /\ pending = <<>>
  /\ sweepTimers = 0
  /\ mounted = FALSE
  /\ mounts = 0
  /\ located = NoCall
  /\ matched = NoMatch
  /\ orch = <<>>
  /\ last = Settled
  /\ caught = FALSE
  /\ abortControllerRef = 0
  /\ files = [n \in Nodes |-> NoFile]
  /\ blurTimers = {}
  /\ drops = <<>>
  /\ retry = NoRetry
  /\ now = 0
  /\ nftCache = [key \in CacheKeys |-> NoEntry]
  /\ fetches = <<>>
  /\ answer = NoAnswer
  /\ refresh = NoRefresh
  /\ alchemy = NoAlchemy
  /\ userFetch = NoUserFetch
  /\ opensea = NoOpenSea
  /\ wallet = [address |-> "", isDisconnecting |-> FALSE]
  /\ loads = <<>>
  /\ nftFetchControllerRef = 0
  /\ nfts = <<>>
  /\ fetchErrors = <<>>
  /\ fromCache = FALSE
  /\ isLoadingNFTs = FALSE
  /\ isMountedRef = TRUE
  /\ toolbars = [t \in Toolbars |-> NoToolbar]
  /\ btnObserver = "none"
  /\ btnPending = FALSE

vars == <<uiVars, retryVars, openseaVars, cacheVars, buttonVars, loadVars, refreshVars, userVars, alchemyVars>>

NextDom ==
  \/ Mount
  \/ Unmount
  \/ MutationCallback
  \/ Sweep
  \/ \E n \in Removable : HostInsert(n)
  \/ \E n \in Removable : HostRemove(n)
  \/ \E n \in Restylable : \E v \in Styles : HostSetCss(n, v)
  \/ \E n \in Focusable : HostFocus(n)
  \/ LocateCall
  \/ MatchCall

\* the page, the watcher, and locator and matcher calls
SpecDom == DomInit /\ [][NextDom]_vars

ComposeBoxes == {n \in Nodes : IsRoleTextbox(n)}

InModal(n) == Closest(n, IsModalMarker) # NULL

\* ------------------------------------------------ Synthetic Upload Trigger
\* the event sequence of triggerFileUploadForClick (829-853): [type, on, target]
ClickEvents(fileInput) ==
  << [type |-> "input",  on |-> fileInput, target |-> fileInput],
     [type |-> "change", on |-> fileInput, target |-> fileInput] >>

RECURSIVE AncestorEvents(_, _)
\* step 5 of triggerFileUpload (part_008 343-354): a change event on every ancestor
\* below document.body, its target bound to the input
AncestorEvents(parent, fileInput) ==
  IF parent = NULL \/ parent = Body THEN <<>>
  ELSE <<[type |-> "change", on |-> parent, target |-> fileInput]>>
       \o AncestorEvents(parentElement(parent), fileInput)

\* change dispatched before input
DropEventsChangeFirst(fileInput) ==
  << [type |-> "change", on |-> fileInput, target |-> fileInput],
     [type |-> "input",  on |-> fileInput, target |-> fileInput],
     [type |-> "file-selected", on |-> fileInput, target |-> fileInput] >>
  \o AncestorEvents(parentElement(fileInput), fileInput)

\* the event sequence of triggerFileUpload (part_008 305-354)
DropEvents(fileInput) ==
  << [type |-> "input",  on |-> fileInput, target |-> fileInput],
     [type |-> "change", on |-> fileInput, target |-> fileInput],
     [type |-> "file-selected", on |-> fileInput, target |-> fileInput] >>
  \o AncestorEvents(parentElement(fileInput), fileInput)

\* document.activeElement after "if (document.activeElement !== fileInput) fileInput.focus()":
\* focus() does nothing on an element that is not rendered or not visible
FocusResult(fileInput) ==
  IF activeElement # fileInput /\ Rendered(fileInput) /\ css[fileInput] = "shown"
  THEN fileInput ELSE activeElement

\* what a trigger call does to the page: the file list, the focus, the blur timeout
TriggerEffects(did, fileInput, file) ==
  IF did
  THEN /\ files' = [files EXCEPT ![fileInput] = file]
       /\ activeElement' = FocusResult(fileInput)
       /\ blurTimers' = blurTimers \cup {fileInput}
  ELSE UNCHANGED <<files, activeElement, blurTimers>>

\* the "clean up focus" timeout (856-860, part_008 384-389)
BlurTimer(n) ==
  /\ n \in blurTimers
  /\ blurTimers' = blurTimers \ {n}
  /\ activeElement' = IF activeElement = n THEN Body ELSE activeElement
  /\ ForgetCalls
  /\ UNCHANGED <<par, css, bgPos, watcherVars, orch, last, caught, abortControllerRef, files, drops>>
  /\ UNCHANGED notUi

\* ------------------------------------------------------ Upload Orchestrator
\* the URL check of handleNFTClickUpload (235-238): new URL() does not throw and the
\* protocol is http: or https:
UrlAccepted(url) == url.parses /\ url.protocol \in {"http:", "https:"}

\* hostname.startsWith(range) for a range of dotted labels ending in a dot
StartsWithLabels(hostname, range) ==
  /\ Len(hostname) > Len(range)
  /\ \A i \in 1..Len(range) : hostname[i] = range[i]

\* validatePublicUrl (part_006 8-29): TRUE when it returns without throwing
validatePublicUrl(url) ==
  LET privateIpRanges ==
        { <<"127">>, <<"10">>, <<"192", "168">>, <<"169", "254">>,
          <<"172", "16">>, <<"172", "17">>, <<"172", "18">>, <<"172", "19">>, <<"172", "20">>,
          <<"172", "21">>, <<"172", "22">>, <<"172", "23">>, <<"172", "24">>, <<"172", "25">>,
          <<"172", "26">>, <<"172", "27">>, <<"172", "28">>, <<"172", "29">>, <<"172", "30">>,
          <<"172", "31">> }
  IN /\ url.parses
     /\ url.protocol \in {"http:", "https:"}
     /\ ~( \/ url.hostname = <<"localhost">>
           \/ \E range \in privateIpRanges : StartsWithLabels(url.hostname, range) )

\* the abort checks left out
SignalIgnored(call) == FALSE

\* "if (abortSignal?.aborted) return" (209, 230, 245, 256)
SignalAborted(call) == call.aborted

\* the Matcher's null result not checked
SyncPartUnchecked(compose, input, hasFile, url) ==
  IF compose = NULL
  THEN [pc |-> "done", outcome |-> "noCompose", steps |-> <<"locate">>]
  ELSE IF hasFile
  THEN [pc |-> "trigger", outcome |-> "", steps |-> <<"locate", "match">>]
  ELSE IF ~UrlAccepted(url)
  THEN [pc |-> "done", outcome |-> "urlError", steps |-> <<"locate", "match">>]
  ELSE [pc |-> "fetching", outcome |-> "", steps |-> <<"locate", "match", "fetch">>]

\* the synchronous part of handleNFTClickUpload up to the first await (209-243):
\* where the call stands and which stages it has run
SyncPart(compose, input, hasFile, url) ==
  IF compose = NULL
  THEN [pc |-> "done", outcome |-> "noCompose", steps |-> <<"locate">>]
  ELSE IF input = NULL
  THEN [pc |-> "done", outcome |-> "noInput", steps |-> <<"locate", "match">>]
  ELSE IF hasFile
  THEN [pc |-> "trigger", outcome |-> "", steps |-> <<"locate", "match">>]
  ELSE IF ~UrlAccepted(url)
  THEN [pc |-> "done", outcome |-> "urlError", steps |-> <<"locate", "match">>]
  ELSE [pc |-> "fetching", outcome |-> "", steps |-> <<"locate", "match", "fetch">>]

\* lines 256-261: the last abort check, then triggerFileUploadForClick (814-868)
Finish(call) ==
  IF SignalAborted(call)
  THEN [call EXCEPT !.pc = "done", !.outcome = "aborted"]
  ELSE [call EXCEPT !.pc = "done", !.outcome = "uploaded",
                    !.steps = Append(call.steps, "trigger"),
                    !.events = ClickEvents(call.input),
                    !.assigned = TRUE,
                    !.validAtTrigger = Attached(call.input) /\ isValidFileInputForClick(call.input)]

\* the outcomes that are exceptions thrown inside the try block (208-262)
Thrown == {"urlError", "httpError", "networkError", "abortError"}

\* the catch block rethrowing every error but an AbortError
CatchRethrows(outcome) == IF outcome = "abortError" THEN "fulfilled" ELSE "rejected"

\* the catch block (263-267): it logs unless the error is an AbortError and falls
\* through, so the promise of the async function is fulfilled
CatchBlock(outcome) == "fulfilled"

\* the state of the promise handleNFTClickUpload returned
Promise(call) ==
  IF call.pc # "done" THEN "pending"
  ELSE IF call.outcome \in Thrown THEN CatchBlock(call.outcome)
  ELSE "fulfilled"

\* a call returns: the program keeps nothing of it, the history keeps how it ended
Settle(calls, i, call) ==
  /\ orch' = [calls EXCEPT ![i] = IF call.pc = "done" THEN Settled ELSE call]
  /\ last' = IF call.pc = "done" THEN [call EXCEPT !.image = BadUrl] ELSE last
  /\ caught' = (caught \/ (call.pc = "done" /\ call.outcome \in Thrown))

\* onNFTClick (992-1007) with the synchronous part of handleNFTClickUpload (205-261)
NFTClick(url, file) ==
  /\ mounted
  /\ Len(orch) < MaxClicks
  /\ \E compose \in {findActiveComposeArea} :
     \E input \in {IF compose = NULL THEN NULL ELSE findFileInputForCompose(compose)} :
     \E sync \in {SyncPart(compose, input, file # NoFile, url)} :
     \E call0 \in {[image |-> url, aborted |-> FALSE, abortedAt |-> "",
                    compose |-> compose, input |-> input,
                    pc |-> sync.pc, outcome |-> sync.outcome, steps |-> sync.steps,
                    events |-> <<>>, assigned |-> FALSE, validAtTrigger |-> TRUE]} :
     \E call \in {IF sync.pc = "trigger" THEN Finish(call0) ELSE call0} :
        /\ Settle(Append(orch, call), Len(orch) + 1, call)
        /\ abortControllerRef' = Len(orch) + 1
        /\ TriggerEffects(call.assigned, input, file)
  /\ ForgetCalls
  /\ UNCHANGED <<par, css, bgPos, watcherVars, drops>>
  /\ UNCHANGED notUi

\* "await fetch(...)" resolves (240-249)
FetchResolve(i, ok) ==
  /\ i \in DOMAIN orch
  /\ orch[i].pc = "fetching"
  /\ Settle(orch, i,
       IF SignalAborted(orch[i]) THEN [orch[i] EXCEPT !.pc = "done", !.outcome = "aborted"]
       ELSE IF ~ok THEN [orch[i] EXCEPT !.pc = "done", !.outcome = "httpError"]
       ELSE [orch[i] EXCEPT !.pc = "reading"])
  /\ UNCHANGED <<domVars, watcherVars, callVars, abortControllerRef, files, blurTimers, drops>>
  /\ UNCHANGED notUi

\* a pending "await" rejects: with an AbortError when the signal is aborted, with a
\* network error otherwise; the catch block swallows both (263-267)
Rejected(call) ==
  [call EXCEPT !.pc = "done", !.outcome = IF call.aborted THEN "abortError" ELSE "networkError"]

\* "await fetch(...)" rejects
FetchReject(i) ==
  /\ i \in DOMAIN orch
  /\ orch[i].pc = "fetching"
  /\ Settle(orch, i, Rejected(orch[i]))
  /\ UNCHANGED <<domVars, watcherVars, callVars, abortControllerRef, files, blurTimers, drops>>
  /\ UNCHANGED notUi

\* "await response.blob()" resolves with a body of the given size (251-261)
BlobResolve(i, size) ==
  /\ i \in DOMAIN orch
  /\ orch[i].pc = "reading"
  /\ \E call \in {Finish(orch[i])} :
        /\ Settle(orch, i, call)
        /\ TriggerEffects(call.assigned, call.input, [size |-> size, type |-> "image/png", name |-> FileName(NftName)])
  /\ ForgetCalls
  /\ UNCHANGED <<par, css, bgPos, watcherVars, abortControllerRef, drops>>
  /\ UNCHANGED notUi

\* "await response.blob()" rejects
BlobReject(i) ==
  /\ i \in DOMAIN orch
  /\ orch[i].pc = "reading"
  /\ Settle(orch, i, Rejected(orch[i]))
  /\ UNCHANGED <<domVars, watcherVars, callVars, abortControllerRef, files, blurTimers, drops>>
  /\ UNCHANGED notUi

\* handleDrop (part_008 534-581) for a drop that carries a file: findFileInput, then
\* triggerFileUpload (part_008 279-398), which re-validates the input first
HandleDrop(target, type) ==
  /\ Len(drops) < MaxDrops
  /\ Attached(target)
  /\ \E input \in {IF type = "image/png" THEN findFileInput(target) ELSE NULL} :
     \E ok \in {input # NULL /\ isValidFileInput(input)} :
        /\ drops' = Append(drops,
             [target |-> target, input |-> input,
              outcome |-> IF type # "image/png" THEN "notImage"
                          ELSE IF input = NULL THEN "noInput"
                          ELSE IF ~ok THEN "invalidInput" ELSE "uploaded",
              assigned |-> ok,
              events |-> IF ok THEN DropEvents(input) ELSE <<>>])
        /\ TriggerEffects(ok, input, [size |-> 500, type |-> type, name |-> <<"a", ".", "p", "n", "g">>])
  /\ ForgetCalls
  /\ UNCHANGED <<par, css, bgPos, watcherVars, orch, last, caught, abortControllerRef>>
  /\ UNCHANGED notUi

\* a file pre-loaded by loadNFTFiles of the popup (894-927)
Preloaded == [size |-> 500, type |-> "image/png", name |-> FileName(NftName)]
FileInputs == {BgInput, ModalInput}
Hidings == {"shown", "none"}
BodySizes == {0, 500}
DropTypes == {"image/png", "text/plain"}

\* the clicks the modal can send: an NFT without a file, with any of the image URLs,
\* or an NFT whose image was pre-loaded
ClickInputs == {<<PublicUrl, NoFile>>, <<LocalhostUrl, NoFile>>,
                <<FileUrl, NoFile>>, <<FtpUrl, NoFile>>, <<BadUrl, NoFile>>,
                <<PublicUrl, Preloaded>>}

Next ==
  \/ Mount
  \/ Unmount
  \/ \E c \in ClickInputs : NFTClick(c[1], c[2])
  \/ \E i \in 1..MaxClicks : \E ok \in BOOLEAN : FetchResolve(i, ok)
  \/ \E i \in 1..MaxClicks : FetchReject(i)
  \/ \E i \in 1..MaxClicks : \E size \in BodySizes : BlobResolve(i, size)
  \/ \E i \in 1..MaxClicks : BlobReject(i)
  \/ \E n \in FileInputs : BlurTimer(n)

\* the upload orchestrator under clicks, mounts and unmounts, on a page that stays as it is
Spec == DomInit /\ [][Next]_vars

NextPage ==
  \/ Mount
  \/ \E c \in ClickInputs : NFTClick(c[1], c[2])
  \/ \E i \in 1..MaxClicks : \E ok \in BOOLEAN : FetchResolve(i, ok)
  \/ \E i \in 1..MaxClicks : FetchReject(i)
  \/ \E i \in 1..MaxClicks : \E size \in BodySizes : BlobResolve(i, size)
  \/ \E i \in 1..MaxClicks : BlobReject(i)
  \/ \E n \in FileInputs : BlurTimer(n)
  \/ \E n \in FileInputs : \E v \in Hidings : HostSetCss(n, v)

\* the upload orchestrator of a mounted modal on a page whose host hides and shows the
\* file inputs
SpecPage == DomInit /\ [][NextPage]_vars

NextTrigger ==
  \/ Mount
  \/ NFTClick(PublicUrl, Preloaded)
  \/ \E t \in ComposeBoxes : \E type \in DropTypes : HandleDrop(t, type)
  \/ \E n \in FileInputs : BlurTimer(n)
  \/ \E n \in FileInputs : \E v \in Styles : HostSetCss(n, v)

\* the two upload triggers: drops on a compose box and clicks on a pre-loaded NFT
SpecTrigger == DomInit /\ [][NextTrigger]_vars

NextFrame ==
  \/ Mount
  \/ Unmount
  \/ MutationCallback
  \/ Sweep
  \/ \E n \in {BgBox, DialogEl} : HostInsert(n)
  \/ \E n \in {BgBox, DialogEl} : HostRemove(n)
  \/ \E v \in Hidings : HostSetCss(BgInput, v)
  \/ NFTClick(PublicUrl, Preloaded)
  \/ \E n \in FileInputs : BlurTimer(n)

\* clicks on a pre-loaded NFT on a page whose host inserts and removes the background
\* compose box and the dialog and hides the background file input while the watcher runs
SpecFrame == DomInit /\ [][NextFrame]_vars

NextFocus ==
  \/ Mount
  \/ MutationCallback
  \/ \E n \in {BgBox, DialogEl, SideBox} : HostInsert(n)
  \/ \E n \in {BgBox, DialogEl, SideBox} : HostRemove(n)
  \/ \E n \in {Body, BgBox, SideBox} : HostFocus(n)
  \/ LocateCall

\* the Locator on a page with a second background box, under focus changes
SpecFocus == DomInit /\ [][NextFocus]_vars

NextProx ==
  \/ Mount
  \/ HostInsert(FarInput)
  \/ HostRemove(FarInput)
  \/ \E n \in {BgInput, ModalInput, FarInput} : \E v \in Hidings : HostSetCss(n, v)
  \/ \E n \in {Body, BgBox} : HostFocus(n)
  \/ LocateCall
  \/ MatchCall

\* the Matcher on a page with a second background file input that the host inserts,
\* removes, hides and shows
SpecProx == DomInit /\ [][NextProx]_vars

NextRetry ==
  \/ \E maxAttempts \in 1..RETRY_MAX_ATTEMPTS, policy \in Policies : WithRetry(maxAttempts, policy)
  \/ OperationResolve
  \/ \E error \in Errors : OperationReject(error)
  \/ SleepDone

SpecRetry == DomInit /\ [][NextRetry]_vars

NextCache ==
  \/ Tick
  \/ \E address \in Addresses, chain \in Chains : CacheCall(address, chain)
  \/ \E i \in 1..MaxFetches : \E result \in FetchResults(now) : FetchDone(i, result)

SpecCache == DomInit /\ [][NextCache]_vars

\* the modal is the service's only caller here: fetchUserNFTsWithCache(address, targetChain)
\* for the address of the connected wallet
NextRefresh ==
  \/ Tick
  \/ \E address \in Addresses : CacheCall(address, "ethereum")
  \/ \E i \in 1..MaxFetches : \E result \in FetchResults(now) : FetchDone(i, result)
  \/ RefreshStart
  \/ \E ok \in BOOLEAN : RefreshRemoved(ok)
  \/ \E result \in FetchResults(now) : RefreshFetchDone(result)

SpecRefresh == DomInit /\ [][NextRefresh]_vars

NextUser ==
  \/ \E chain \in UserChains : FetchUserNFTs(chain)
  \/ \E ok \in BOOLEAN, list \in ProviderLists, cause \in Causes : TestnetDone(ok, list, cause)
  \/ \E ok \in BOOLEAN, list \in ProviderLists, cause \in Causes : AlchemyDone(ok, list, cause)
  \/ \E ok \in BOOLEAN, list \in ProviderLists, cause \in Causes : OpenSeaDone(ok, list, cause)

SpecUser == DomInit /\ [][NextUser]_vars

NextAlchemy ==
  \/ \E chain \in UserChains, valid \in BOOLEAN, accessToken \in AccessTokens :
       AlchemyCall(chain, valid, accessToken)
  \/ AlchemyFetchReject
  \/ \E status \in AlchemyStatuses : AlchemyResponse(status)
  \/ \E ok \in BOOLEAN, list \in ProviderLists : AlchemyJsonDone(ok, list)

SpecAlchemy == DomInit /\ [][NextAlchemy]_vars

AllLoadResults == UNION {LoadResults(w.address) : w \in Wallets}

NextLoad ==
  \/ \E w \in Wallets : RunEffect(w)
  \/ RetryFetch
  \/ WalletDisconnected
  \/ LoadUnmount
  \/ \E i \in 1..MaxLoads : \E result \in AllLoadResults : LoadResolve(i, result)
  \/ \E i \in 1..MaxLoads : LoadReject(i)
  \/ \E i \in 1..MaxLoads : \E ok \in BOOLEAN : StorageRemoved(i, ok)
  \/ \E i \in 1..MaxLoads : FreshReject(i)
  \/ \E i \in 1..MaxLoads : \E result \in AllLoadResults : FreshResolve(i, result)

SpecLoad == DomInit /\ [][NextLoad]_vars

\* the page with text areas that only the fallback selectors reach, and locator calls
NextFallback ==
  \/ Mount
  \/ MutationCallback
  \/ Sweep
  \/ \E n \in {BgBox, DialogEl, DmInput, PostArea} : HostInsert(n)
  \/ \E n \in {BgBox, DialogEl, DmInput, PostArea} : HostRemove(n)
  \/ LocateCall

SpecFallback == DomInit /\ [][NextFallback]_vars

\* the page with a dialog and a docked bar, and locator calls
NextModal ==
  \/ Mount
  \/ MutationCallback
  \/ Sweep
  \/ \E n \in {DialogEl, ModalBox, FixedBar} : HostInsert(n)
  \/ \E n \in {DialogEl, ModalBox, FixedBar} : HostRemove(n)
  \/ \E v \in Styles : HostSetCss(ModalBox, v)
  \/ LocateCall

SpecModal == DomInit /\ [][NextModal]_vars

NextButton ==
  \/ FirstPass
  \/ ButtonObserverCallback
  \/ CleanupObserver
  \/ \E t \in Toolbars, change \in {"attach", "list", "rerender"} : HostToolbar(t, change)

SpecButton == DomInit /\ [][NextButton]_vars

NextOpenSea ==
  \/ \E hasKey \in BOOLEAN : OpenSeaCall(hasKey)
  \/ RequestTimeout
  \/ OpenSeaFetchReject
  \/ \E status \in Statuses : OpenSeaResponse(status)
  \/ OpenSeaTextDone
  \/ \E ok \in BOOLEAN : OpenSeaJsonDone(ok)
  \/ OpenSeaSleepDone

SpecOpenSea == DomInit /\ [][NextOpenSea]_vars

\* ------------------------------------------------------------------ claims

\* C1 (modal priority): whenever the page holds two valid compose elements, one inside
\* a dialog-role container and visually on top, the other in the background, and
\* neither is focused, findActiveComposeArea returns the modal one, whatever the
\* recent-candidate set holds.
C1_ModalPriority ==
  \A m \in ComposeBoxes : \A b \in ComposeBoxes :
    ( /\ isValidComposeElement(m) /\ isValidComposeElement(b)
      /\ InModal(m) /\ isElementOnTop(m)
      /\ ~InModal(b)
      /\ activeElement \notin {m, b} )
    => findActiveComposeArea = m

\* C6 (modal-context consistency): for a compose area inside a modal container,
\* findFileInputForCompose never returns a file input outside every modal container.
C6_NoCrossContext ==
  \A c \in ComposeBoxes :
    (isValidComposeElement(c) /\ InModal(c))
    => LET r == findFileInputForCompose(c) IN r = NULL \/ InModal(r)

\* C7 (modal containment): when the compose area is inside a modal container that
\* holds a valid file input, findFileInputForCompose returns a valid file input of
\* that container, however close a file input outside the modal is.
C7_ModalContainment ==
  \A c \in ComposeBoxes :
    LET mc == Closest(c, IsModalMarker)
        r  == findFileInputForCompose(c)
    IN (mc # NULL /\ \E i \in Nodes \ {mc} : Contains(mc, i) /\ isValidFileInputForClick(i))
       => (r # NULL /\ r # mc /\ Contains(mc, r) /\ isValidFileInputForClick(r))

\* the matcher was called for the modal box and answered the modal input although the
\* valid background input is nearer to the box
C7_Witness ==
  /\ matched = [compose |-> ModalBox, input |-> ModalInput]
  /\ isValidFileInputForClick(BgInput) /\ Attached(BgInput)
  /\ Distance2(ModalBox, BgInput) < Distance2(ModalBox, ModalInput)

\* C8 (stale candidate eviction): an element of the recent-candidate set that is
\* detached from the document is never the result of findActiveComposeArea, also
\* while its removal record is still queued and no sweep has run.
C8_StaleNeverReturned ==
  \A n \in SeqToSet(recentlyAddedComposeAreas) :
    ~Attached(n) => (findActiveComposeArea # n /\ located # n)

\* the locator has been called while a detached element sits in the set and its
\* removal record is still queued
C8_Witness ==
  /\ located # NoCall
  /\ pending # <<>>
  /\ \E n \in SeqToSet(recentlyAddedComposeAreas) : ~Attached(n)

\* the calls of handleNFTClickUpload the state knows: those in flight and the last returned
AllCalls == {orch[i] : i \in DOMAIN orch} \cup {last}

\* C2 (supersession): whenever a later NFT click has arrived, every earlier call that is
\* still in flight has its abort signal aborted.
C2_Supersession ==
  \A i, j \in DOMAIN orch : (i < j /\ orch[i].pc # "done") => orch[i].aborted

\* C3 (cancellation): a call whose signal was aborted while its fetch or its body read was
\* pending returns without changing any input's files and without dispatching an event.
C3_Cancellation ==
  [][\A i \in DOMAIN orch :
       (orch[i].aborted /\ orch[i].pc \in {"fetching", "reading"} /\ orch'[i].pc = "done")
         => (files' = files /\ ~last'.assigned /\ last'.events = <<>>
             /\ last'.abortedAt = orch[i].pc)]_vars

\* a call was aborted during the body read, the read resolved, and the call stopped
C3_Witness == last.abortedAt = "reading" /\ last.outcome = "aborted" /\ ~last.assigned

\* C4 (URL policy): every fetch in flight is for a URL that validatePublicUrl accepts.
C4_UrlPolicy ==
  \A i \in DOMAIN orch :
    orch[i].pc \in {"fetching", "reading"} => validatePublicUrl(orch[i].image)

\* C5 (trigger re-validation): a trigger call on an input that is detached or not a valid
\* file input at that moment assigns no file and dispatches no event.
C5_TriggerRevalidation ==
  \A c \in AllCalls : ~c.validAtTrigger => (~c.assigned /\ c.events = <<>>)

Stages == { <<"locate">>, <<"locate", "match">>, <<"locate", "match", "fetch">>,
            <<"locate", "match", "trigger">>, <<"locate", "match", "fetch", "trigger">> }

\* C9 (orchestration ordering): a call runs Locator, Matcher, Trigger in that order, each at
\* most once; when the Locator or the Matcher returned null it ran nothing after that
\* stage: no fetch, no file assignment, no event.
C9_Ordering ==
  \A c \in AllCalls :
    \/ c = Settled
    \/ /\ c.steps \in Stages
       /\ c.compose = NULL => (c.steps = <<"locate">> /\ ~c.assigned /\ c.events = <<>>)
       /\ (c.compose # NULL /\ c.input = NULL)
            => (c.steps = <<"locate", "match">> /\ ~c.assigned /\ c.events = <<>>)
       /\ c.assigned <=> (c.steps[Len(c.steps)] = "trigger")

\* the Matcher returned null for a located compose box and the call ended there
C9_Witness ==
  /\ last.compose # NULL /\ last.input = NULL
  /\ last.outcome = "noInput"
  /\ \E n \in FileInputs : css[n] = "none"

\* the events of one trigger call on input inp: input, then change, both on inp with the
\* target bound to inp, and every event on another element after them
EventOrder(inp, e) ==
  /\ Len(e) >= 2
  /\ e[1] = [type |-> "input", on |-> inp, target |-> inp]
  /\ e[2] = [type |-> "change", on |-> inp, target |-> inp]
  /\ \A m \in 1..Len(e) : e[m].on # inp => (m > 2 /\ e[m].type = "change" /\ e[m].target = inp)

\* C10 (trigger event order): every trigger call, from a drop or from a click, dispatches
\* input then change on the file input, targets bound to it, before any change event it
\* re-dispatches on an ancestor.
C10_EventOrder ==
  /\ \A k \in DOMAIN drops : drops[k].assigned => EventOrder(drops[k].input, drops[k].events)
  /\ \A c \in AllCalls : c.assigned => EventOrder(c.input, c.events)

\* a drop re-dispatched change on an ancestor, and a click trigger ran as well
C10_Witness ==
  /\ \E k \in DOMAIN drops :
        drops[k].assigned /\ \E m \in 4..Len(drops[k].events) : drops[k].events[m].on = MainEl
  /\ last.assigned /\ Len(last.events) = 2

Scenario ==
  /\ Attached(DialogEl) /\ Attached(BgBox)
  /\ isValidComposeElement(ModalBox)
  /\ isValidFileInputForClick(ModalInput)
  /\ css[BgInput] = "none"

\* C12 (end-to-end frame): in the scenario document a click on a pre-loaded NFT puts
\* exactly the pre-loaded file, named by the sanitized NFT name plus .png, on the modal
\* file input, changes no other input's files, and dispatches events only on elements
\* of the modal input's ancestor chain.
C12_Frame ==
  [][(Scenario /\ Len(orch') = Len(orch) + 1)
       => /\ files' = [files EXCEPT ![ModalInput] = Preloaded]
          /\ Preloaded.name = <<"A", "p", "e", "_", "_", "1", ".", "p", "n", "g">>
          /\ last'.assigned
          /\ \A m \in DOMAIN last'.events :
               last'.events[m].on \in SeqToSet(InclusiveAncestors(ModalInput))]_vars

\* the watcher had recorded the background box, the Locator returned it, and the file
\* still went to the modal input and nowhere else
C12_Witness ==
  /\ Scenario
  /\ last.compose = BgBox /\ last.input = ModalInput /\ last.assigned
  /\ files[ModalInput] = Preloaded
  /\ \A n \in Nodes \ {ModalInput} : files[n] = NoFile

\* what strategy i yields in the current document, in the order of the claim:
\* focused element, recent candidates, modal, best visible, flat fallback
Strategy(i) ==
  CASE i = 1 -> IF isValidComposeElement(activeElement) THEN activeElement ELSE NULL
    [] i = 2 -> RecentCandidate
    [] i = 3 -> findModalComposeArea
    [] i = 4 -> findBestVisibleComposeArea
    [] i = 5 -> FallbackCandidate

RECURSIVE FirstYield(_)
\* the result of the first strategy from i on that yields one, NULL when none does
FirstYield(i) ==
  IF i > 5 THEN NULL
  ELSE LET r == Strategy(i) IN IF r # NULL THEN r ELSE FirstYield(i + 1)

NoModal == QuerySelectorAll(Body, IsModalMarker) = <<>>

\* C14 (focus override): with no modal present, a focused valid compose element is what
\* findActiveComposeArea returns, whatever the scores and the recent candidates are.
C14_FocusOverride ==
  (located # NoCall /\ NoModal /\ isValidComposeElement(activeElement))
    => located = activeElement

\* the focused reply box was returned although the unfocused compose box scores higher
\* and is the recent candidate
C14_Witness ==
  /\ NoModal
  /\ activeElement = SideBox /\ located = SideBox
  /\ isValidComposeElement(BgBox)
  /\ scoreComposeElement(BgBox) > scoreComposeElement(SideBox)
  /\ RecentCandidate = BgBox

\* C15 (validator soundness): for every node that is not attached to the document the
\* compose-element validator and both file-input validators return false.
C15_ValidatorSoundness ==
  \A n \in Nodes :
    ~Attached(n) => (/\ ~isValidComposeElement(n)
                     /\ ~isValidFileInputForClick(n)
                     /\ ~isValidFileInput(n))

\* C16 (upload payload invariant): every file a trigger call has put on an input has a
\* MIME type and a non-zero byte length.
C16_PayloadInvariant ==
  \A n \in FileInputs :
    files[n] # NoFile => (files[n].type # "" /\ files[n].size > 0)

\* the valid file inputs of the document, in document order
ValidInputs == SelectSeq(QuerySelectorAll(Body, IsFileTypeInput), isValidFileInputForClick)

\* C17 (matcher proximity fallback): for a compose area in no modal and without a
\* container match, findFileInputForCompose returns the valid file input whose centre is
\* nearest to the compose area's centre, the first in document order among equally near
\* ones, and null when the document has no valid file input.
C17_ProximityFallback ==
  (matched # NoMatch /\ ~InModal(matched.compose) /\ ContainerInput(matched.compose) = NULL)
    => \A V \in {ValidInputs} :
         IF V = <<>> THEN matched.input = NULL
         ELSE \E i \in 1..Len(V) :
                /\ V[i] = matched.input
                /\ \A j \in 1..Len(V) :
                     /\ Distance2(matched.compose, V[i]) <= Distance2(matched.compose, V[j])
                     /\ Distance2(matched.compose, V[i]) = Distance2(matched.compose, V[j])
                          => i <= j

\* of two valid inputs the one later in the document was returned, being the nearer
C17_Witness ==
  /\ matched # NoMatch /\ matched.compose = BgBox
  /\ ContainerInput(BgBox) = NULL
  /\ matched.input = FarInput
  /\ Attached(ModalInput) /\ isValidFileInputForClick(ModalInput)
  /\ Distance2(BgBox, FarInput) < Distance2(BgBox, ModalInput)

\* C18 (watcher stop): from the unmount cleanup until the next mount the observer is
\* disconnected, no mutation record is waiting for it and the recent-candidate set is
\* empty, whatever the host does to the page meanwhile.
C18_WatcherStop ==
  ~mounted => (/\ composeAreaObserver = FALSE
               /\ pending = <<>>
               /\ recentlyAddedComposeAreas = <<>>)

\* the modal was unmounted, and the host has re-inserted the compose box since
C18_Witness ==
  /\ ~mounted /\ mounts > 0
  /\ recentlyAddedComposeAreas = <<>>
  /\ Attached(BgBox) /\ located = NoCall /\ activeElement = BgBox

\* C19 (retry attempt bound): withRetry invokes the operation at most maxAttempts times,
\* does not invoke it again after a successful result, and does not invoke it again after
\* an error for which shouldRetry is false; under the default policy an AbortError is
\* never followed by another attempt.
C19_AttemptBound ==
  /\ [](/\ retry.calls <= retry.maxAttempts
        /\ (retry.policy = "default" /\ retry.lastError.name = "AbortError") => retry.pc = "thrown")
  /\ [][retry'.calls # retry.calls =>
          \/ retry.pc \in {"idle", "returned", "thrown"} /\ retry'.calls = 1 /\ retry'.attempt = 1
          \/ /\ retry.pc = "sleeping"
             /\ shouldRetry(retry.policy, retry.lastError)
             /\ retry'.calls = retry.calls + 1]_vars

C19_Witness ==
  /\ retry.pc = "thrown"
  /\ retry.policy = "default"
  /\ retry.maxAttempts = 3
  /\ retry.calls = 2
  /\ retry.lastError.name = "AbortError"

\* C20 (retry reporting): the RetryError thrown by withRetry reports, in its attempts
\* field and in its message, the number of attempts actually made, and carries the last
\* underlying error.
C20_Reporting ==
  retry.pc = "thrown" =>
    /\ retry.thrown.attempts = retry.calls
    /\ retry.thrown.messageAttempts = retry.calls
    /\ retry.thrown.lastError = retry.lastError

\* C21 (NFT cache window): a fetchUserNFTsWithCache call returns without calling a provider
\* exactly when, at the call, the cache holds an entry for its (chain, lower-cased address)
\* key that is younger than 5 minutes, and then it returns that entry; a call whose fresh
\* fetch yields at least one NFT returns the fresh list, never an older entry.
C21_CacheWindow ==
  answer # NoAnswer =>
    /\ ~answer.provider <=>
         (answer.cached # NoEntry /\ answer.at - answer.cached.timestamp < 5 * 60 * 1000)
    /\ ~answer.provider => (answer.fromCache /\ answer.nfts = answer.cached.nfts)
    /\ (answer.provider /\ Len(answer.result.nfts) > 0) =>
         (answer.nfts = answer.result.nfts /\ ~answer.fromCache)
    /\ answer.key.address = <<"0", "x", "a", "b">>

\* a call made exactly 5 minutes after the entry was written went to the providers and
\* returned their fresh list
C21_Witness ==
  /\ answer.provider
  /\ answer.cached # NoEntry
  /\ answer.at - answer.cached.timestamp = CACHE_DURATION
  /\ Len(answer.cached.nfts) > 0
  /\ Len(answer.result.nfts) > 0
  /\ answer.nfts # answer.cached.nfts

\* C22 (timeout reporting): when the request of the attempt that made fetchNFTsFromOpenSea
\* fail was aborted by the request timeout, the error it throws carries the "Request
\* timeout" message.
C22_TimeoutReporting ==
  (opensea.pc = "thrown" /\ opensea.timedOut) =>
    opensea.message = "Request timeout. Please check your connection and try again."

\* C23 (no duplicate buttons): after the first pass and after every observer callback, no
\* toolbar holds more than one NFT inventory button.
C23_NoDuplicateButtons == \A t \in Toolbars : toolbars[t].buttons <= 1

\* a toolbar that already had its button went through another scan and kept exactly one
C23_Witness ==
  /\ btnObserver = "observing"
  /\ ~btnPending
  /\ \A t \in Toolbars : toolbars[t].attached /\ toolbars[t].list /\ toolbars[t].buttons = 1

\* the elements a batch of records reports as added: each added node and its descendants
\* that match one of the compose selectors
AddedElements(mutations) ==
  UNION {{mutations[i].added}
           \cup {n \in SeqToSet(Descendants(mutations[i].added)) :
                   IsRoleTextbox(n) \/ IsTweetTextarea(n) \/ IsContentEditable(n)}
         : i \in {j \in DOMAIN mutations : mutations[j].added # NULL}}

\* C24 (watcher bookkeeping): when the observer callback has processed a batch, every added
\* element (the added node or a descendant matching the compose selectors) that passes the
\* validator is in the recent set, every element the batch put into the set passes the
\* validator, and if the batch removed an element no member of the set is detached.
C24_WatcherBookkeeping ==
  [][(composeAreaObserver /\ composeAreaObserver' /\ pending # <<>> /\ pending' = <<>>) =>
       /\ \A e \in AddedElements(pending) :
            isValidComposeElement(e) => e \in SeqToSet(recentlyAddedComposeAreas')
       /\ \A e \in SeqToSet(recentlyAddedComposeAreas') \ SeqToSet(recentlyAddedComposeAreas) :
            isValidComposeElement(e) /\ e \in AddedElements(pending)
       /\ (\E i \in DOMAIN pending : pending[i].removed # NULL) =>
            \A e \in SeqToSet(recentlyAddedComposeAreas') : Attached(e)]_vars

\* the callback has run: the set holds the background box it saw added, and the box of the
\* dialog the host has removed is not in it
C24_Witness ==
  /\ composeAreaObserver
  /\ pending = <<>>
  /\ BgBox \in SeqToSet(recentlyAddedComposeAreas)
  /\ ~Attached(ModalBox)
  /\ ModalBox \notin SeqToSet(recentlyAddedComposeAreas)

\* the valid file inputs inside container c that match the selector list of the Matcher
ValidInputsIn(c) ==
  {n \in SeqToSet(Descendants(c)) :
     /\ \E i \in 1..3 : InputSelectors(n)[i]
     /\ isValidFileInputForClick(n)}

\* C25 (container-hierarchy search): when the modal step yields nothing and a candidate
\* container of step 2 holds a valid file input matching the selector list,
\* findFileInputForCompose returns a valid input of that container or of a container
\* earlier in the candidate list.
C25_ContainerSearch ==
  (matched # NoMatch /\ ModalScopedInput(matched.compose) = NULL) =>
    \A C \in {ContainerCandidates(matched.compose)} :
      \A k \in DOMAIN C :
        ValidInputsIn(C[k]) # {} => \E j \in 1..k : matched.input \in ValidInputsIn(C[j])

\* the Locator's result came from the modal strategy: the two strategies before it yield
\* nothing
FromModalStrategy ==
  /\ located # NoCall
  /\ Strategy(1) = NULL /\ Strategy(2) = NULL
  /\ located # NULL /\ located = Strategy(3)

\* n lies inside a container with inline style "position: fixed"
InFixedOverlay(n) ==
  LET IsFixed(m) == Attr(m).fixed IN parentElement(n) # NULL /\ Closest(parentElement(n), IsFixed) # NULL

\* C26 (modal-contained step), as stated: the element the modal strategy returns is a valid
\* compose element inside a container with a dialog/modal marker and passes the
\* visually-on-top test.
C26_ModalContained ==
  FromModalStrategy =>
    /\ isValidComposeElement(located)
    /\ InModal(located)
    /\ isElementOnTop(located)

\* C26, amended: the element the modal strategy returns is a valid compose element that
\* passes the visually-on-top test and lies inside a container with a dialog/modal marker
\* or inside a container with an inline position: fixed style.
C26_ModalOrFixed ==
  FromModalStrategy =>
    /\ isValidComposeElement(located)
    /\ InModal(located) \/ InFixedOverlay(located)
    /\ isElementOnTop(located)

\* the modal strategy returned the dialog's compose box while the docked bar is on the page
C26_Witness ==
  /\ FromModalStrategy
  /\ located = ModalBox
  /\ Attached(FixedBox)

\* the Locator's result came from the flat fallback: strategies 1-4 yield nothing
FromFallback ==
  /\ located # NoCall
  /\ Strategy(1) = NULL /\ Strategy(2) = NULL /\ Strategy(3) = NULL /\ Strategy(4) = NULL

\* the valid matches of the fallback selectors, selector by selector, each in document order
FallbackMatches ==
  LET order == Descendants(Body)
      Sel(i) == LET M(n) == FallbackSelectors(n)[i] IN SelectSeq(order, M)
  IN SelectSeq(Flatten([i \in 1..NumFallbackSelectors |-> Sel(i)]), isValidComposeElement)

\* C27 (flat fallback), as stated: when strategies 1-4 yield nothing, the Locator returns
\* the first valid match of its fallback selector list, in selector order.
C27_FirstValidMatch ==
  FromFallback =>
    \A M \in {FallbackMatches} : located = (IF M = <<>> THEN NULL ELSE M[1])

\* C27, amended: when strategies 1-4 yield nothing, the Locator returns the valid match of
\* its fallback selector list with the highest score, the first in selector order among
\* equally scored ones, and null when there is no valid match.
C27_BestScoredMatch ==
  FromFallback =>
    \A M \in {FallbackMatches} :
      IF M = <<>> THEN located = NULL
      ELSE \E i \in DOMAIN M :
             /\ M[i] = located
             /\ \A j \in DOMAIN M :
                  /\ scoreComposeElement(M[j]) <= scoreComposeElement(M[i])
                  /\ (scoreComposeElement(M[j]) = scoreComposeElement(M[i]) /\ j < i)
                       => M[j] = M[i]

\* the fallback returned the later match, which scores higher than the first one
C27_Witness ==
  /\ FromFallback
  /\ located = PostArea
  /\ FallbackMatches[1] = DmInput

\* C28 (sweep timer lifecycle): at most one periodic sweep timer is scheduled at any time,
\* and none is scheduled once cleanupComposeAreaObserver has run (the observer is gone).
C28_SweepTimerLifecycle ==
  /\ sweepTimers <= 1
  /\ ~composeAreaObserver => sweepTimers = 0

\* C29 (superseded NFT list fetch): a step of a wallet NFT fetch whose controller has been
\* aborted (by a newer fetch, a disconnect or the unmount) leaves the NFT list, the errors
\* and the cache flag of the component state as they are.
C29_SupersededFetch ==
  [][\A i \in DOMAIN loads :
       (loads[i].aborted /\ loads'[i] # loads[i]) => UNCHANGED <<nfts, fetchErrors, fromCache>>]_vars

\* C30 (loading flag consistency): while the wallet NFT fetch of the current controller is
\* still in flight, isLoadingNFTs is true.
C30_LoadingFlag ==
  (isMountedRef /\ nftFetchControllerRef # 0 /\ loads[nftFetchControllerRef].pc # "done")
    => isLoadingNFTs

\* C31 (empty cached result refresh): when the modal has settled the refresh of an empty list
\* served from the cache, its storage removal done, the second answer came from a provider
\* fetch, not from the cache again.
C31_FreshProviderFetch ==
  (refresh.pc = "settled" /\ refresh.removed) => refresh.provider

\* C32 (cache read consistency): when a call of fetchUserNFTsWithCache for the key of the
\* previous answer was made after that answer and within 5 minutes of it, it returns the
\* same NFT list (nothing clears the cache in between).
C32_ReadConsistency ==
  [][(/\ answer # NoAnswer
      /\ answer' # answer
      /\ answer'.key = answer.key
      /\ answer'.at >= answer.returned
      /\ answer'.at - answer.returned < CACHE_DURATION)
       => answer'.nfts = answer.nfts]_vars

\* C33 (rate-limit retry): an OpenSea request made through retryNFTFetch whose last response
\* was a 429 is given up only when the attempt limit is reached, and after a 401 response
\* no further attempt is scheduled.
C33_RateLimitRetry ==
  /\ (retry.pc = "thrown" /\ retry.lastError = RateLimitErr) => retry.calls = retry.maxAttempts
  /\ retry.lastError = AuthErr => retry.pc # "sleeping"

\* the service name under which the error of a provider is recorded
ServiceOf(provider) == IF provider = "testnet" THEN "unknown" ELSE provider

AllProvidersFailed == userFetch.pc = "returned" /\ userFetch.failed = Len(userFetch.tried)

\* Alchemy is called first when the chain has an Alchemy config, and OpenSea only straight
\* after a failed Alchemy call or when the chain has none
ProviderOrder ==
  /\ userFetch.pc \in {"idle", "testnet", "alchemy", "opensea", "returned"}
  /\ (HasAlchemy(userFetch.chain) /\ userFetch.tried # <<>>) => userFetch.tried[1] = "alchemy"
  /\ \A i \in DOMAIN userFetch.tried :
       userFetch.tried[i] = "opensea" =>
         \/ ~HasAlchemy(userFetch.chain)
         \/ i > 1 /\ userFetch.tried[i - 1] = "alchemy" /\ userFetch.failed >= i - 1

\* C34 (provider fallback), as stated: fetchUserNFTs never throws, keeps the provider order,
\* and when every provider it called failed it returns an empty list with one error per
\* failed provider in the order they were tried.
C34_ProviderFallback ==
  /\ ProviderOrder
  /\ AllProvidersFailed =>
       /\ userFetch.nfts = <<>>
       /\ Len(userFetch.errors) = Len(userFetch.tried)
       /\ \A i \in DOMAIN userFetch.tried :
            userFetch.errors[i].service = ServiceOf(userFetch.tried[i])

\* C34 (provider fallback), amended: the same for every chain but abstract-testnet; there the
\* testnet indexer is the only provider called, and when it fails the mock list is returned
\* with the indexer's error and a notice.
C34_ProviderFallbackOffTestnet ==
  /\ ProviderOrder
  /\ (AllProvidersFailed /\ userFetch.chain # "abstract-testnet") =>
       /\ userFetch.nfts = <<>>
       /\ Len(userFetch.errors) = Len(userFetch.tried)
       /\ \A i \in DOMAIN userFetch.tried :
            userFetch.errors[i].service = ServiceOf(userFetch.tried[i])
  /\ (AllProvidersFailed /\ userFetch.chain = "abstract-testnet") =>
       /\ userFetch.tried = <<"testnet">>
       /\ userFetch.nfts = MockNFTs
       /\ Len(userFetch.errors) = 2
       /\ \A i \in 1..2 : userFetch.errors[i].service = "unknown"

C34_Witness ==
  /\ AllProvidersFailed
  /\ userFetch.chain = "ethereum"
  /\ userFetch.tried = <<"alchemy", "opensea">>
  /\ userFetch.errors[1].service = "alchemy" /\ userFetch.errors[2].service = "opensea"
  /\ userFetch.nfts = <<>>

\* C35 (chain-aware Alchemy fetch): a request of fetchNFTsFromAlchemy goes to the Alchemy
\* endpoint that CHAIN_CONFIGS names for the requested chain.
C35_ChainEndpoint ==
  alchemy.host # "" => alchemy.host = AlchemyHost(alchemy.chain)

====
